---- MODULE Spec2Model ----
(***************************************************************************)
(* Reservation lineage and lifecycle reconciliation of aws_audit_exporter. *)
(*                                                                         *)
(* The model follows src/postgres/postgres.go (the lifecycle-tag engine)   *)
(* and the poll cycle GetReservationsInfo that drives it.  The repository  *)
(* holds two revisions of GetReservationsInfo that differ in the sort      *)
(* order of the snapshot (src/unnamed/part_001 sorts with After,           *)
(* src/unnamed/part_000 with Before); the variable sortRevision selects    *)
(* the one a run executes.                                                 *)
(*                                                                         *)
(* Times are integers counting quarters of a second; the provider reports *)
(* times with a sub-second part, the exporter formats them to whole        *)
(* seconds (FormatDate) and parses them back (parseDate).                  *)
(***************************************************************************)
EXTENDS Integers, Sequences, FiniteSets, TLC

\* ------------------------------------------------------------------------
\* Bounds of the model
\* ------------------------------------------------------------------------

\* latest second at which the provider lets a purchase start
MaxStart == 1

\* instance count of a purchased reservation
MaxCount == 2

\* number of reservations bought directly (the others come from a sale or an
\* exchange of one of these)
MaxPurchases == 2

\* number of poll cycles run on one and the same provider state
MaxCycles == 2

\* duration of the offerings, in seconds
Duration == 8

\* largest offset (in seconds after its start) at which a reservation is cut
\* short by a sale or an exchange; the smallest one is one second
MaxCut == 2

\* identifiers of the reservations and of the marketplace listing
ReservationIDs == {"r1", "r2", "r3"}

ListingIDs == {"l1"}

\* the provider's timestamps carry a sub-second part: a quarter of a second
\* at the odd seconds, none at the even ones
SubSecond(s) == s % 2

\* ------------------------------------------------------------------------
\* Program constants
\* ------------------------------------------------------------------------

\* time.Second, in the model's time unit (a quarter of a second)
Second == 4

\* const oneMonthDuration = time.Hour * 24 * 30
oneMonthDuration == 24 * 30 * 3600 * Second

\* FP * 1000000000 : prices are stored in nano-dollars
NanoDollars == 1000000000

\* uint16 arithmetic of Count / UnitsSold
Uint16 == 65536

NoRI == [none |-> TRUE]

NoListing == [nolisting |-> TRUE]

NoRow == [norow |-> TRUE]

\* ------------------------------------------------------------------------
\* Provider offerings (the family-grouping attributes and the fixed price)
\* ------------------------------------------------------------------------

Offering(class, family, fp) ==
    [OfferingClass |-> class, Family |-> family, OfferingType |-> "All Upfront",
     ProductDescription |-> "Linux/UNIX", InstanceTenancy |-> "default",
     FixedPrice |-> fp]

\* the offerings of the first purchase
BaseOfferings ==
    { Offering("standard", "m5", 1),
      Offering("convertible", "m5", 1) }

Offerings ==
    { Offering("standard", "m5", 1),
      Offering("standard", "m5", 2),
      Offering("standard", "c5", 1),
      Offering("convertible", "m5", 1),
      Offering("convertible", "c5", 1) }

\* ------------------------------------------------------------------------
\* Generic helpers
\* ------------------------------------------------------------------------

Range(s) == { s[i] : i \in DOMAIN s }

\* all orderings of the finite set S
Permutations_(S) ==
    { q \in [1..Cardinality(S) -> S] : \A i, j \in 1..Cardinality(S) : i # j => q[i] # q[j] }

\* what sort.Slice(less) / ORDER BY may return: a permutation in which no
\* element is followed by one whose key is less than its own (ties in any
\* order); key maps the elements of S to integers
SortedBy(S, key) ==
    { q \in Permutations_(S) : \A i, j \in DOMAIN q : i < j => ~(key[q[j]] < key[q[i]]) }

RECURSIVE SumSeq(_)
SumSeq(s) == IF s = <<>> THEN 0 ELSE Head(s) + SumSeq(Tail(s))

\* (*r.End).Format("2006-01-02 15:04:05"): the text names a whole second
FormatDate(t) == t \div Second

\* parseDate: time.Parse("2006-01-02 15:04:05", dateString)
parseDate(dateString) == dateString * Second

\* ------------------------------------------------------------------------
\* Persistence layer (src/postgres/postgres.go)
\* ------------------------------------------------------------------------

\* INSERT ... ON CONFLICT (key) DO UPDATE SET column = EXCLUDED.column, ...
\* : a new key stores the whole row, an existing key keeps every column that
\* is not listed in columnsToUpdate (updated_at is not modelled)
upsert(table, key, row, columnsToUpdate) ==
    IF table[key] = NoRow
    THEN [table EXCEPT ![key] = row]
    ELSE [table EXCEPT ![key] =
            [c \in DOMAIN row |-> IF c \in columnsToUpdate THEN row[c] ELSE table[key][c]]]

Rows(table) == { table[k] : k \in { k \in DOMAIN table : table[k] # NoRow } }

updateReservationLifecycleStatus(Lifecycle, lifecycle) ==
    IF lifecycle \in {"canceled", "unchanged", "unknown"}
    THEN <<lifecycle>>
    ELSE Append(SelectSeq(Lifecycle,
                    LAMBDA s : ~(s = "unchanged" \/ s = "unknown" \/ s = "canceled" \/ s = lifecycle)),
                lifecycle)

\* queryBase without the conditions added when the class is not convertible
queryBase_noFamily(r, d) ==
    /\ d.Duration = r.Duration
    /\ d.OfferClass = r.OfferClass
    /\ d.Region = r.Region
    /\ d.ReservationID # r.ReservationID

\* WHERE clause shared by the two descendant queries
queryBase(r, d) ==
    /\ d.Duration = r.Duration
    /\ d.OfferClass = r.OfferClass
    /\ d.Region = r.Region
    /\ d.ReservationID # r.ReservationID
    /\ (r.OfferClass # "convertible" =>
            /\ d.Family = r.Family
            /\ d.OfferType = r.OfferType
            /\ d.Product = r.Product
            /\ d.Tenancy = r.Tenancy)

\* descendants originated from a sell operation
querySells(r, table) ==
    { d \in Rows(table) :
        /\ queryBase(r, d)
        /\ d.UpfrontPrice = r.UpfrontPrice
        /\ d.StartDate = parseDate(FormatDate(r.EndDate + Second)) }

\* descendants originated from a conversion / exchange operation
queryConversion(r, table) ==
    { d \in Rows(table) :
        /\ queryBase(r, d)
        /\ d.StartDate = parseDate(FormatDate(r.EndDate)) }

\* variant: the unchanged test without the second the provider takes off
isUnchanged_wholeDuration(r) == r.StartDate + r.Duration * Second = r.EndDate

\* the unchanged test: r.StartDate.Add(duration).Add(-time.Second).Equal(r.EndDate)
isUnchanged(r) == r.StartDate + r.Duration * Second - Second = r.EndDate

\* variant: the cancellation test without the second the reservation lived
isCanceled_sameSecond(r) == r.StartDate = r.EndDate

\* the cancellation test: r.StartDate.Add(time.Second).Equal(r.EndDate)
isCanceled(r) == r.StartDate + Second = r.EndDate

WithLifecycle(rows, lifecycle) ==
    { [d EXCEPT !.Lifecycle = updateReservationLifecycleStatus(d.Lifecycle, lifecycle)] : d \in rows }

\* variant: the conversion query runs first and the sell query only when it
\* found nothing
findDirectDescendantsAndUpdateLifecycle_conversionFirst(r, table) ==
    LET conversion == queryConversion(r, table)
        sells      == IF conversion = {} THEN querySells(r, table) ELSE {}
        newLifeCycle == IF conversion # {} THEN "converted" ELSE "sell_splitted"
        set(l) == [r EXCEPT !.Lifecycle = updateReservationLifecycleStatus(r.Lifecycle, l)]
    IN  IF isUnchanged(r)
        THEN [r |-> set("unchanged"), isNil |-> TRUE, directDescendants |-> {}]
        ELSE IF sells # {} \/ conversion # {}
        THEN [r |-> set(newLifeCycle), isNil |-> FALSE,
              directDescendants |-> WithLifecycle(sells \cup conversion, newLifeCycle)]
        ELSE IF isCanceled(r)
        THEN [r |-> set("canceled"), isNil |-> TRUE, directDescendants |-> {}]
        ELSE IF table[r.ReservationID] = NoRow
        THEN [r |-> set("unknown"), isNil |-> TRUE, directDescendants |-> {}]
        ELSE [r |-> [r EXCEPT !.Lifecycle = table[r.ReservationID].Lifecycle],
              isNil |-> TRUE, directDescendants |-> {}]

\* variant: the fallback does not read the stored row and sets unknown
findDirectDescendantsAndUpdateLifecycle_fallbackUnknown(r, table) ==
    LET sells      == querySells(r, table)
        conversion == IF sells = {} THEN queryConversion(r, table) ELSE {}
        newLifeCycle == IF conversion # {} THEN "converted" ELSE "sell_splitted"
        set(l) == [r EXCEPT !.Lifecycle = updateReservationLifecycleStatus(r.Lifecycle, l)]
    IN  IF isUnchanged(r)
        THEN [r |-> set("unchanged"), isNil |-> TRUE, directDescendants |-> {}]
        ELSE IF sells # {} \/ conversion # {}
        THEN [r |-> set(newLifeCycle), isNil |-> FALSE,
              directDescendants |-> WithLifecycle(sells \cup conversion, newLifeCycle)]
        ELSE IF isCanceled(r)
        THEN [r |-> set("canceled"), isNil |-> TRUE, directDescendants |-> {}]
        ELSE [r |-> set("unknown"), isNil |-> TRUE, directDescendants |-> {}]

\* returns the reservation with its lifecycle set, and the direct descendants
\* (isNil when the function returns nil, nil)
findDirectDescendantsAndUpdateLifecycle(r, table) ==
    LET sells      == querySells(r, table)
        conversion == IF sells = {} THEN queryConversion(r, table) ELSE {}
        foundDirectDescendantsSells      == sells # {}
        foundDirectDescendantsConversion == conversion # {}
        newLifeCycle == IF foundDirectDescendantsConversion THEN "converted" ELSE "sell_splitted"
        set(l) == [r EXCEPT !.Lifecycle = updateReservationLifecycleStatus(r.Lifecycle, l)]
    IN  IF isUnchanged(r)
        THEN [r |-> set("unchanged"), isNil |-> TRUE, directDescendants |-> {}]
        ELSE IF foundDirectDescendantsSells \/ foundDirectDescendantsConversion
        THEN [r |-> set(newLifeCycle), isNil |-> FALSE,
              directDescendants |-> WithLifecycle(sells \cup conversion, newLifeCycle)]
        ELSE IF isCanceled(r)
        THEN [r |-> set("canceled"), isNil |-> TRUE, directDescendants |-> {}]
        ELSE IF table[r.ReservationID] = NoRow
        THEN [r |-> set("unknown"), isNil |-> TRUE, directDescendants |-> {}]
        ELSE [r |-> [r EXCEPT !.Lifecycle = table[r.ReservationID].Lifecycle],
              isNil |-> TRUE, directDescendants |-> {}]

\* the models.Reservations value InsertIntoPGReservations builds from the labels
Reservation(values, FP, listings) ==
    [ReservationID |-> values.ri_id,
     Count         |-> values.count % Uint16,
     Duration      |-> values.duration,
     EndDate       |-> parseDate(values.end_date),
     Family        |-> values.family,
     ListedOn      |-> listings,
     OfferClass    |-> values.offer_class,
     OfferType     |-> values.offer_type,
     Product       |-> values.product,
     Region        |-> values.region,
     StartDate     |-> parseDate(values.start_date),
     State         |-> values.state,
     Tenancy       |-> values.tenancy,
     UpfrontPrice  |-> FP * NanoDollars,
     Lifecycle     |-> <<>>]

RECURSIVE upsertAll(_, _, _)
upsertAll(table, rows, columnsToUpdate) ==
    IF rows = {} THEN table
    ELSE LET d == CHOOSE d \in rows : TRUE
         IN  upsertAll(upsert(table, d.ReservationID, d, columnsToUpdate),
                       rows \ {d}, columnsToUpdate)

\* rows where direct descendants are the parents
farDescendantsUUID(relations, directDescendantsUUID) ==
    { e[2] : e \in { e \in relations : e[1] \in directDescendantsUUID } }

\* the relation edges InsertIntoPGReservations upserts for reservationID
newRelations(relations, reservationID, directDescendantsUUID) ==
    { <<reservationID, d>> : d \in directDescendantsUUID }
        \cup { <<reservationID, f>> : f \in farDescendantsUUID(relations, directDescendantsUUID) }

\* variant: the direct descendants are related but not upserted
InsertIntoPGReservations_ownRowOnly(values, FP, listings, table, relations) ==
    LET reservation == Reservation(values, FP, listings)
        found == findDirectDescendantsAndUpdateLifecycle(reservation, table)
        own   == upsert(table, reservation.ReservationID, found.r, {"State", "Lifecycle"})
    IN  IF found.isNil
        THEN [reservations |-> own, reservations_relations |-> relations]
        ELSE LET directDescendantsUUID == { d.ReservationID : d \in found.directDescendants }
             IN  [reservations |-> own,
                  reservations_relations |->
                      relations \cup newRelations(relations, reservation.ReservationID,
                                                  directDescendantsUUID)]

\* InsertIntoPGReservations: the store after the call
InsertIntoPGReservations(values, FP, listings, table, relations) ==
    LET reservation == Reservation(values, FP, listings)
        found == findDirectDescendantsAndUpdateLifecycle(reservation, table)
        own   == upsert(table, reservation.ReservationID, found.r, {"State", "Lifecycle"})
    IN  IF found.isNil
        THEN [reservations |-> own, reservations_relations |-> relations]
        ELSE LET directDescendantsUUID == { d.ReservationID : d \in found.directDescendants }
             IN  [reservations |-> upsertAll(own, found.directDescendants, {"Lifecycle"}),
                  reservations_relations |->
                      relations \cup newRelations(relations, reservation.ReservationID,
                                                  directDescendantsUUID)]

\* parents of r found by the JOIN on reservations_relations
ancestors(r, table, relations) ==
    { table[e[1]] : e \in { e \in relations : e[2] = r /\ table[e[1]] # NoRow } }

\* getOriginalReservationExpirationDate without the query for the ancestors
getOriginalReservationExpirationDate_ownStart(r, table, relations) ==
    IF table[r] = NoRow
    THEN {}
    ELSE { table[r].StartDate + table[r].Duration * Second - Second }

\* getOriginalReservationExpirationDate: the dates the queries can return
\* (ORDER BY start_date LIMIT 1 picks any of the oldest parents); the empty
\* set stands for the error return
getOriginalReservationExpirationDate(r, table, relations) ==
    LET anc    == ancestors(r, table, relations)
        oldest == { p \in anc : \A o \in anc : p.StartDate <= o.StartDate }
    IN  IF oldest # {}
        THEN { p.StartDate + p.Duration * Second - Second : p \in oldest }
        ELSE IF table[r] = NoRow
        THEN {}
        ELSE { table[r].StartDate + table[r].Duration * Second - Second }

\* WHERE ? = ANY (listed_on)
reservationsInListing(listingID, table) ==
    { d \in Rows(table) : listingID \in d.ListedOn }

\* ORDER BY end_date
orderedByEndDate(rows) == SortedBy(rows, [a \in rows |-> a.EndDate])

SellEvent(r, sold) ==
    [ReservationID |-> r.ReservationID, SoldDate |-> r.EndDate, UnitsSold |-> sold]

\* sold := reservationsInListing[i].Count - reservationsInListing[i+1].Count
generationEvents(q) ==
    [i \in 1..(Len(q) - 1) |-> SellEvent(q[i], (q[i].Count - q[i + 1].Count) % Uint16)]

\* youngestSold without the second added to the end date
youngestSold_noSecond(q, reservationOriginalExpirationDate) ==
    q[Len(q)].EndDate < reservationOriginalExpirationDate

youngestSold(q, reservationOriginalExpirationDate) ==
    q[Len(q)].EndDate + Second < reservationOriginalExpirationDate

markSold(table, r) ==
    upsert(table, r.ReservationID,
           [r EXCEPT !.Lifecycle = updateReservationLifecycleStatus(r.Lifecycle, "sold")],
           {"Lifecycle"})

\* the switch numResults of InsertIntoPGReservationsListingsTerms for one
\* ordering q of the listing's reservations
calculateSellEvents(q, listedRIID, reservationOriginalExpirationDate, table) ==
    IF Len(q) = 0
    THEN [exit |-> "panic", events |-> <<>>, table |-> table]
    ELSE IF Len(q) = 1
    THEN IF q[1].ReservationID # listedRIID
         THEN [exit |-> "panic", events |-> <<>>, table |-> table]
         ELSE [exit |-> "none", events |-> <<SellEvent(q[1], q[1].Count)>>,
               table |-> markSold(table, q[1])]
    ELSE LET r == q[Len(q)]
         IN  IF youngestSold(q, reservationOriginalExpirationDate) /\ Len(q) - 1 > 0
             THEN [exit |-> "none",
                   events |-> Append(generationEvents(q), SellEvent(r, r.Count)),
                   table |-> markSold(table, r)]
             ELSE [exit |-> "none", events |-> generationEvents(q), table |-> table]

\* unitsSoldAssertion that keeps the last quantity only
unitsSoldAssertion_lastOnly(events) ==
    IF events = <<>> THEN 0 ELSE events[Len(events)].UnitsSold % Uint16

unitsSoldAssertion(events) ==
    SumSeq([i \in DOMAIN events |-> events[i].UnitsSold]) % Uint16

\* sellEvents := map[time.Time]uint16{} : a later event replaces an earlier
\* one with the same date
sellEventsMap(events) ==
    [d \in { events[i].SoldDate : i \in DOMAIN events } |->
        events[CHOOSE i \in DOMAIN events :
                  /\ events[i].SoldDate = d
                  /\ \A j \in DOMAIN events : events[j].SoldDate = d => j <= i].UnitsSold]

RECURSIVE SumOver(_, _)
SumOver(f, S) ==
    IF S = {} THEN 0
    ELSE LET x == CHOOSE x \in S : TRUE IN f[x] + SumOver(f, S \ {x})

\* units of the events that fall into the window of a term
unitsSoldInWindow(termStartDate, termEndDate, eventsMap) ==
    SumOver(eventsMap, { event \in DOMAIN eventsMap :
                            termStartDate < event /\ termEndDate > event }) % Uint16

termEndDate(priceSchedule, reservationOriginalExpirationDate) ==
    reservationOriginalExpirationDate - priceSchedule.Term * 24 * 30 * 3600 * Second

\* termStartDate without the clamp to the publish date
termStartDate_noClamp(priceSchedule, listingTotalTerms, listingPublishDate, reservationOriginalExpirationDate) ==
    termEndDate(priceSchedule, reservationOriginalExpirationDate) - oneMonthDuration

termStartDate(priceSchedule, listingTotalTerms, listingPublishDate, reservationOriginalExpirationDate) ==
    IF priceSchedule.Term = listingTotalTerms
    THEN listingPublishDate
    ELSE termEndDate(priceSchedule, reservationOriginalExpirationDate) - oneMonthDuration

\* the check constraints "dates" and "term_length" of the table
\* reservations_listings_terms, as far as they relate the two dates of a row
reservationsListingsTermsChecks(row) ==
    /\ row.EndDate > row.StartDate
    /\ row.EndDate <= row.StartDate + oneMonthDuration

\* upsert on (listing_id, start_date) that updates no column
upsertTerm_doNothing(terms, row) ==
    IF \E t \in terms : t.ListingID = row.ListingID /\ t.StartDate = row.StartDate
    THEN terms
    ELSE terms \cup {row}

\* upsert on (listing_id, start_date) updating units_sold
upsertTerm(terms, row) ==
    IF \E t \in terms : t.ListingID = row.ListingID /\ t.StartDate = row.StartDate
    THEN { IF t.ListingID = row.ListingID /\ t.StartDate = row.StartDate
           THEN [t EXCEPT !.UnitsSold = row.UnitsSold] ELSE t : t \in terms }
    ELSE terms \cup {row}

\* the loop over the price schedules: the upsert of a row the checks reject
\* fails, the function returns nil and the rows written so far stay (upsert
\* runs on DB, not on the transaction tx)
RECURSIVE writeTerms(_, _, _, _, _, _, _)
writeTerms(terms, listingID, priceSchedules, listingTotalTerms, listingPublishDate, reservationOriginalExpirationDate, eventsMap) ==
    IF priceSchedules = <<>> THEN terms
    ELSE LET priceSchedule == Head(priceSchedules)
             start == termStartDate(priceSchedule, listingTotalTerms, listingPublishDate,
                                    reservationOriginalExpirationDate)
             end   == termEndDate(priceSchedule, reservationOriginalExpirationDate)
             listingPrices ==
                 [ListingID |-> listingID, StartDate |-> start, EndDate |-> end,
                  UnitsSold |-> unitsSoldInWindow(start, end, eventsMap),
                  UpfrontPrice |-> priceSchedule.Price * NanoDollars]
         IN  IF ~reservationsListingsTermsChecks(listingPrices)
             THEN terms
             ELSE writeTerms(upsertTerm(terms, listingPrices), listingID,
                             Tail(priceSchedules), listingTotalTerms, listingPublishDate,
                             reservationOriginalExpirationDate, eventsMap)

\* InsertIntoPGReservationsListingsTerms: every outcome the call can have
\* (exit: "none" for a nil error, "fatal" for an error the caller log.Fatal-s,
\* "panic" for the nil pointer dereference in the error message)
InsertIntoPGReservationsListingsTerms(values, unitsSold, priceSchedules, table, relations, terms) ==
    LET listingID  == values.ril_id
        listedRIID == values.source_ri_id
        listingPublishDate == parseDate(values.created_date)
        listingTotalTerms  == Len(priceSchedules)
        unchanged == [exit |-> "fatal", table |-> table, terms |-> terms, events |-> <<>>]
        expirations == getOriginalReservationExpirationDate(listedRIID, table, relations)
        write(exp, calc) ==
            [exit |-> "none", table |-> calc.table, events |-> calc.events,
             terms |-> writeTerms(terms, listingID, priceSchedules, listingTotalTerms,
                                  listingPublishDate, exp, sellEventsMap(calc.events))]
        sale(exp, q) ==
            LET calc == calculateSellEvents(q, listedRIID, exp, table)
            IN  IF calc.exit = "panic"
                THEN [unchanged EXCEPT !.exit = "panic"]
                ELSE IF unitsSoldAssertion(calc.events) # unitsSold
                THEN [exit |-> "none", table |-> calc.table, terms |-> terms,
                      events |-> calc.events]
                ELSE write(exp, calc)
    IN  IF expirations = {} \/ table[listedRIID] = NoRow
        THEN { unchanged }
        ELSE IF unitsSold > 0
        THEN { sale(exp, q) : exp \in expirations,
                              q \in orderedByEndDate(reservationsInListing(listingID, table)) }
        ELSE { write(exp, [table |-> table, events |-> <<>>]) : exp \in expirations }

VARIABLES
    aws,                        \* provider: reservation id -> reserved instance
    ril,                        \* provider: listing id -> marketplace listing
    reservations,               \* store: table reservations
    reservations_relations,     \* store: table reservations_relations
    reservations_listings_terms,\* store: table reservations_listings_terms
    sellEvents,                 \* sell events derived by the last listing pass
    pc,                         \* position of the poll cycle
    queue,                      \* sorted snapshot still to be processed
    exit,                       \* how the last call into the store ended
    cycles,                     \* poll cycles started since the provider last changed
    before,                     \* the store as the running (or last) poll cycle found it
    sortRevision                \* revision of GetReservationsInfo that runs

vars == <<aws, ril, reservations, reservations_relations,
          reservations_listings_terms, sellEvents, pc, queue, exit, cycles,
          before, sortRevision>>

provider == <<aws, ril>>

store == <<reservations, reservations_relations, reservations_listings_terms>>

\* ------------------------------------------------------------------------
\* The provider (EC2 reserved instances and the marketplace)
\* ------------------------------------------------------------------------

IDSeq == <<"r1", "r2", "r3">>

\* reservations that were bought, not carved from another one
Bought == { id \in ReservationIDs : aws[id] # NoRI /\ aws[id].Origin = "purchase" }

Purchased == { id \in ReservationIDs : aws[id] # NoRI }

\* the provider hands out identifiers in a fixed order
CanCreate(id) ==
    /\ Cardinality(Purchased) < Len(IDSeq)
    /\ id = IDSeq[Cardinality(Purchased) + 1]

ReservedInstances(o, start, end, count, listings, origin, parent) ==
    [Start |-> start, End |-> end, Duration |-> Duration, InstanceCount |-> count,
     State |-> "active", Origin |-> origin, Parent |-> parent, Fate |-> "none",
     OfferingClass |-> o.OfferingClass, Family |-> o.Family,
     OfferingType |-> o.OfferingType, ProductDescription |-> o.ProductDescription,
     InstanceTenancy |-> o.InstanceTenancy, FixedPrice |-> o.FixedPrice,
     Listings |-> listings]

\* the dates at which a running reservation can be cut short
CutDate(r, off) == r.Start + off * Second

\* a reservation is bought and runs for its whole duration
Purchase(id, o, start) ==
    /\ pc = "idle"
    /\ CanCreate(id)
    /\ Cardinality(Bought) < MaxPurchases
    /\ Bought = {} => start = 0 /\ o \in BaseOfferings
    /\ Bought # {} => start > 0
    /\ aws' = [aws EXCEPT ![id] =
                 ReservedInstances(o, start, start + Duration * Second - Second, MaxCount,
                                   {}, "purchase", "none")]
    /\ cycles' = 0
    /\ UNCHANGED <<ril, store, sellEvents, pc, queue, exit, before, sortRevision>>

\* the reservation is put on the marketplace
CreateReservedInstancesListing(l, id) ==
    /\ pc = "idle"
    /\ ril[l] = NoListing
    /\ aws[id] # NoRI
    /\ aws[id].State = "active"
    /\ ril' = [ril EXCEPT ![l] =
                 [ReservedInstancesId |-> id, CreateDate |-> aws[id].Start, sold |-> 0,
                  PriceSchedules |-> <<[Term |-> 1, Price |-> 1]>>]]
    /\ aws' = [aws EXCEPT ![id].Listings = @ \cup {l}]
    /\ cycles' = 0
    /\ UNCHANGED <<store, sellEvents, pc, queue, exit, before, sortRevision>>

\* k units of the listed reservation are sold at date x: the reservation ends
\* at x and the units that remain go on as a new reservation from x + 1s
MarketplaceSale(l, id, child, off, k) ==
    /\ pc = "idle"
    /\ aws[id] # NoRI
    /\ aws[id].State = "active"
    /\ l \in aws[id].Listings
    /\ CutDate(aws[id], off) < aws[id].End
    /\ k \in 1..aws[id].InstanceCount
    /\ ril' = [ril EXCEPT ![l].sold = @ + k]
    /\ LET x == CutDate(aws[id], off)
       IN  IF k < aws[id].InstanceCount
           THEN /\ CanCreate(child)
                /\ aws' = [aws EXCEPT
                     ![id].End = x, ![id].State = "retired", ![id].Fate = "sold_part",
                     ![child] = [aws[id] EXCEPT !.Start = x + Second, !.Origin = "sale",
                                                !.Parent = id,
                                                !.InstanceCount = aws[id].InstanceCount - k]]
           ELSE /\ child = id
                /\ aws' = [aws EXCEPT ![id].End = x, ![id].State = "retired",
                                      ![id].Fate = "sold_all"]
    /\ cycles' = 0
    /\ UNCHANGED <<store, sellEvents, pc, queue, exit, before, sortRevision>>

\* the reservation is exchanged (converted) at date x for a new one of
\* offering o that starts at x
Exchange(id, child, o, off) ==
    /\ pc = "idle"
    /\ aws[id] # NoRI
    /\ aws[id].State = "active"
    /\ aws[id].Listings = {}
    /\ CutDate(aws[id], off) < aws[id].End
    /\ o.OfferingClass = aws[id].OfferingClass
    /\ aws[id].OfferingClass # "convertible" =>
            o.Family = aws[id].Family /\ o.FixedPrice = aws[id].FixedPrice
    /\ CanCreate(child)
    /\ LET x == CutDate(aws[id], off)
       IN  aws' = [aws EXCEPT
                 ![id].End = x, ![id].State = "retired", ![id].Fate = "exchanged",
                 ![child] = [ReservedInstances(o, x, aws[id].End, aws[id].InstanceCount,
                                               {}, "exchange", id)
                               EXCEPT !.Duration = aws[id].Duration]]
    /\ cycles' = 0
    /\ UNCHANGED <<ril, store, sellEvents, pc, queue, exit, before, sortRevision>>

\* the payment fails: the reservation ends one second after it started
Cancel(id) ==
    /\ pc = "idle"
    /\ aws[id] # NoRI
    /\ aws[id].State = "active"
    /\ aws[id].Listings = {}
    /\ aws[id].End = aws[id].Start + Duration * Second - Second
    /\ aws' = [aws EXCEPT ![id].End = aws[id].Start + Second, ![id].State = "retired",
                          ![id].Fate = "canceled"]
    /\ cycles' = 0
    /\ UNCHANGED <<ril, store, sellEvents, pc, queue, exit, before, sortRevision>>

\* ------------------------------------------------------------------------
\* The poll cycle (GetReservationsInfo)
\* ------------------------------------------------------------------------

\* sort.Slice(reservedInstances, ...Start.After(...)) in src/unnamed/part_001,
\* ...Start.Before(...) in src/unnamed/part_000
sortedReservedInstances(ids) ==
    IF sortRevision = "After"
    THEN SortedBy(ids, [a \in ids |-> 0 - aws[a].Start])
    ELSE SortedBy(ids, [a \in ids |-> aws[a].Start])

\* the labels GetReservationsInfo fills for reservation id
Labels(id) ==
    [count       |-> aws[id].InstanceCount,
     duration    |-> aws[id].Duration,
     end_date    |-> FormatDate(aws[id].End),
     family      |-> aws[id].Family,
     ri_id       |-> id,
     offer_class |-> aws[id].OfferingClass,
     offer_type  |-> aws[id].OfferingType,
     product     |-> aws[id].ProductDescription,
     region      |-> "us-east-1",
     start_date  |-> FormatDate(aws[id].Start),
     state       |-> aws[id].State,
     tenancy     |-> aws[id].InstanceTenancy]

\* the labels GetReservationsInfo fills for listing l
ListingLabels(l) ==
    [source_ri_id |-> ril[l].ReservedInstancesId,
     ril_id       |-> l,
     created_date |-> FormatDate(ril[l].CreateDate),
     state        |-> "sold"]

\* svc.DescribeReservedInstances and the sort of the snapshot
DescribeReservedInstances ==
    /\ pc = "idle"
    /\ cycles < MaxCycles
    /\ cycles' = cycles + 1
    /\ pc' = "reservations"
    /\ queue' \in sortedReservedInstances(Purchased)
    /\ exit' = "none"
    /\ sellEvents' = [l \in ListingIDs |-> <<>>]
    /\ before' = [reservations |-> reservations,
                  reservations_relations |-> reservations_relations,
                  reservations_listings_terms |-> reservations_listings_terms]
    /\ UNCHANGED <<provider, store, sortRevision>>

\* one pass of the loop over the reserved instances
ProcessReservation ==
    /\ pc = "reservations"
    /\ queue # <<>>
    /\ LET id  == Head(queue)
           new == InsertIntoPGReservations(Labels(id), aws[id].FixedPrice, aws[id].Listings,
                                           reservations, reservations_relations)
       IN  /\ reservations' = new.reservations
           /\ reservations_relations' = new.reservations_relations
    /\ queue' = Tail(queue)
    /\ UNCHANGED <<provider, reservations_listings_terms, sellEvents, pc, exit, cycles,
                   before, sortRevision>>

\* getReservedInstancesListings(svc, nil): all the listings, in any order
DescribeReservedInstancesListings ==
    /\ pc = "reservations"
    /\ queue = <<>>
    /\ pc' = "listings"
    /\ queue' \in Permutations_({ l \in ListingIDs : ril[l] # NoListing })
    /\ UNCHANGED <<provider, store, sellEvents, exit, cycles, before, sortRevision>>

\* one pass of the loop over the listings: the instance count of state sold
ProcessListing ==
    /\ pc = "listings"
    /\ queue # <<>>
    /\ LET l == Head(queue)
       IN  IF aws[ril[l].ReservedInstancesId] = NoRI
           THEN UNCHANGED <<store, sellEvents, pc, exit>> /\ queue' = Tail(queue)
           ELSE \E out \in InsertIntoPGReservationsListingsTerms(
                               ListingLabels(l), ril[l].sold % Uint16, ril[l].PriceSchedules,
                               reservations, reservations_relations,
                               reservations_listings_terms) :
                   /\ reservations' = out.table
                   /\ reservations_listings_terms' = out.terms
                   /\ sellEvents' = [sellEvents EXCEPT ![l] = out.events]
                   /\ exit' = out.exit
                   /\ IF out.exit = "none"
                      THEN pc' = pc /\ queue' = Tail(queue)
                      ELSE pc' = "idle" /\ queue' = <<>>
                   /\ UNCHANGED reservations_relations
    /\ UNCHANGED <<provider, cycles, before, sortRevision>>

\* the loop over the listings is over: the cycle ends
EndCycle ==
    /\ pc = "listings"
    /\ queue = <<>>
    /\ pc' = "idle"
    /\ UNCHANGED <<provider, store, sellEvents, queue, exit, cycles, before, sortRevision>>

Init ==
    /\ aws = [id \in ReservationIDs |-> NoRI]
    /\ ril = [l \in ListingIDs |-> NoListing]
    /\ reservations = [id \in ReservationIDs |-> NoRow]
    /\ reservations_relations = {}
    /\ reservations_listings_terms = {}
    /\ sellEvents = [l \in ListingIDs |-> <<>>]
    /\ pc = "idle"
    /\ queue = <<>>
    /\ exit = "none"
    /\ cycles = 0
    /\ before = [reservations |-> reservations,
                 reservations_relations |-> reservations_relations,
                 reservations_listings_terms |-> reservations_listings_terms]
    /\ sortRevision \in {"After", "Before"}

Next ==
    \/ \E id \in ReservationIDs, o \in Offerings, s \in 0..MaxStart :
            Purchase(id, o, s * Second + SubSecond(s))
    \/ \E l \in ListingIDs, id \in ReservationIDs : CreateReservedInstancesListing(l, id)
    \/ \E l \in ListingIDs, id, child \in ReservationIDs, off \in 1..MaxCut, k \in 1..MaxCount :
            MarketplaceSale(l, id, child, off, k)
    \/ \E id, child \in ReservationIDs, o \in Offerings, off \in 1..MaxCut :
            Exchange(id, child, o, off)
    \/ \E id \in ReservationIDs : Cancel(id)
    \/ DescribeReservedInstances
    \/ ProcessReservation
    \/ DescribeReservedInstancesListings
    \/ ProcessListing
    \/ EndCycle

Spec == Init /\ [][Next]_vars

\* ------------------------------------------------------------------------
\* Vocabulary of the properties
\* ------------------------------------------------------------------------

\* the reservation value the poll cycle hands to InsertIntoPGReservations
Polled(id) == Reservation(Labels(id), aws[id].FixedPrice, aws[id].Listings)

TagSet(table, id) == Range(table[id].Lifecycle)

Definitive == {"canceled", "converted", "sell_splitted", "sold"}

Placeholders == {"unchanged", "unknown"}

\* the reservation a lineage started from, by the provider's own history
RECURSIVE Root(_)
Root(id) == IF aws[id].Parent = "none" THEN id ELSE Root(aws[id].Parent)

RECURSIVE Depth(_)
Depth(id) == IF aws[id].Parent = "none" THEN 0 ELSE 1 + Depth(aws[id].Parent)

LineageDepth ==
    IF Purchased = {} THEN 0
    ELSE CHOOSE n \in 0..Cardinality(Purchased) :
            /\ \E id \in Purchased : Depth(id) = n
            /\ \A id \in Purchased : Depth(id) <= n

Tree(root) == { id \in Purchased : Root(id) = root }

\* the classification the provider's history gives a reservation
GroundTruth(id) ==
    LET own == CASE aws[id].Fate = "canceled"  -> {"canceled"}
                 [] aws[id].Fate = "exchanged" -> {"converted"}
                 [] aws[id].Fate = "sold_part" -> {"sell_splitted"}
                 [] aws[id].Fate = "sold_all"  -> {"sold"}
                 [] OTHER -> {}
        inherited == CASE aws[id].Origin = "exchange" -> {"converted"}
                       [] aws[id].Origin = "sale"     -> {"sell_splitted"}
                       [] OTHER -> {}
    IN  IF own \cup inherited = {} THEN {"unchanged"} ELSE own \cup inherited

\* root.start + duration - 1s, in the precision of the store
TruePristine(id) ==
    parseDate(FormatDate(aws[Root(id)].Start)) + aws[Root(id)].Duration * Second - Second

\* the dates of the reservation do not coincide with another signature: it
\* does not look canceled unless it was, and when its last units were sold
\* they were sold more than a second before the pristine expiration
Ordinary(id) ==
    /\ aws[id].Fate # "canceled" => aws[id].End # aws[id].Start + Second
    /\ aws[id].Fate = "sold_all" =>
            parseDate(FormatDate(aws[id].End)) + Second < TruePristine(id)

\* all the sell events the last listing pass derived
DerivedEvents ==
    UNION { { [l |-> l, i |-> i, e |-> sellEvents[l][i]] : i \in DOMAIN sellEvents[l] }
            : l \in ListingIDs }

StoreNow ==
    [reservations |-> reservations,
     reservations_relations |-> reservations_relations,
     reservations_listings_terms |-> reservations_listings_terms]

\* ------------------------------------------------------------------------
\* C1 - C4 : scenario and contract properties of the whole cycle
\* ------------------------------------------------------------------------

\* cycle 1 polled R alone and stored it unchanged; the snapshot of the cycle
\* that just ended reports R cut short by a sale and its remainder C
SimpleSale(R, C) ==
    /\ Purchased = {R, C}
    /\ aws[R].Origin = "purchase" /\ aws[R].Fate = "sold_part"
    /\ aws[C].Parent = R /\ aws[C].Origin = "sale" /\ aws[C].Fate = "none"
    /\ before.reservations[R] # NoRow
    /\ before.reservations[R].Lifecycle = <<"unchanged">>
    /\ before.reservations[C] = NoRow
    /\ Ordinary(R) /\ Ordinary(C)

\* C1: simple-sale scenario.  When R was polled alone and stored unchanged,
\* and the next cycle's snapshot reports R with a truncated end together
\* with its remainder C (same family and price, start = R.end + 1s), then at
\* the end of that cycle R and C are both tagged sell_splitted, the edge
\* R -> C exists, and a sell event for R is dated at R's truncated end with
\* the units that were sold.
C1_SimpleSale ==
    \A R, C \in ReservationIDs :
        (pc = "idle" /\ cycles = 1 /\ exit = "none" /\ SimpleSale(R, C)) =>
            /\ reservations[R] # NoRow /\ reservations[C] # NoRow
            /\ "sell_splitted" \in TagSet(reservations, R)
            /\ "sell_splitted" \in TagSet(reservations, C)
            /\ <<R, C>> \in reservations_relations
            /\ \E d \in DerivedEvents :
                    d.e = [ReservationID |-> R,
                           SoldDate      |-> parseDate(FormatDate(aws[R].End)),
                           UnitsSold     |-> aws[R].InstanceCount - aws[C].InstanceCount]

Converged ==
    \A id \in Purchased :
        /\ reservations[id] # NoRow
        /\ TagSet(reservations, id) = GroundTruth(id)
        /\ getOriginalReservationExpirationDate(id, reservations, reservations_relations)
               = {TruePristine(id)}

TagsOf(table) ==
    [id \in ReservationIDs |-> IF table[id] = NoRow THEN {} ELSE TagSet(table, id)]

\* C2: convergence.  Once the final snapshot of a history (one whose dates
\* coincide with no other signature) has been polled more often than the
\* lineage is deep, every reservation's tag set equals the ground-truth
\* classification and every member of a lineage has its root's pristine
\* expiration; a cycle after that changes no tag and adds no relation edge.
C2_Convergence ==
    (/\ pc = "idle" /\ cycles = MaxCycles /\ LineageDepth < cycles
     /\ \A id \in Purchased : Ordinary(id)) =>
        /\ Converged
        /\ LineageDepth + 1 < cycles =>
               /\ TagsOf(reservations) = TagsOf(before.reservations)
               /\ reservations_relations = before.reservations_relations

\* C3: idempotence.  A cycle that ran on the snapshot the cycle before it ran
\* on leaves the store as that cycle left it: no new row, no new relation
\* edge, no changed tag, no changed term.
C3_Idempotence ==
    (pc = "idle" /\ cycles >= 2) => StoreNow = before

\* C4: count conservation.  After every cycle and for every lineage tree,
\* the instance counts of the tree's live leaves plus the units of the sell
\* events derived for the tree's reservations add up to the root's count
\* (left out are the trees with a canceled reservation, whose units are
\* neither live nor sold, and those whose dates coincide with another
\* signature).
C4_CountConservation ==
    (pc = "idle" /\ cycles >= 1 /\ exit = "none") =>
        \A root \in { id \in Purchased : aws[id].Parent = "none" } :
            (\A id \in Tree(root) : aws[id].Fate # "canceled" /\ Ordinary(id)) =>
                LET live == { id \in Tree(root) : aws[id].Fate = "none" }
                    sold == { d \in DerivedEvents : d.e.ReservationID \in Tree(root) }
                IN  SumOver([id \in live |-> aws[id].InstanceCount], live)
                      + SumOver([d \in sold |-> d.e.UnitsSold], sold)
                      = aws[root].InstanceCount

\* ------------------------------------------------------------------------
\* C5 - C10 : the classification of one reservation
\* ------------------------------------------------------------------------

\* "the same family": another reservation of equal duration, offer class and
\* region and, unless the offer class is convertible, of equal instance
\* family, offer type, product and tenancy
SameFamily(r, d) ==
    /\ d.ReservationID # r.ReservationID
    /\ d.Duration = r.Duration /\ d.OfferClass = r.OfferClass /\ d.Region = r.Region
    /\ r.OfferClass = "convertible"
         \/ (/\ d.Family = r.Family /\ d.OfferType = r.OfferType
             /\ d.Product = r.Product /\ d.Tenancy = r.Tenancy)

\* same family, start == r.end + 1s, upfront_price == r.upfront_price
SellSplitMatches(r, table) ==
    { d.ReservationID : d \in { d \in Rows(table) :
        /\ SameFamily(r, d)
        /\ d.StartDate = r.EndDate + Second
        /\ d.UpfrontPrice = r.UpfrontPrice } }

\* same family, start == r.end
ConversionMatches(r, table) ==
    { d.ReservationID : d \in { d \in Rows(table) :
        SameFamily(r, d) /\ d.StartDate = r.EndDate } }

FailsUnchanged(r) == r.StartDate + r.Duration * Second - Second # r.EndDate

LooksCanceled(r) == r.StartDate + Second = r.EndDate

\* the reservations the running cycle has already stored
Processed == IF pc = "reservations" THEN Purchased \ Range(queue) ELSE {}

ParentEdges(relations, id) == { e \in relations : e[1] = id }

\* C5: tie-break.  For a reservation r that fails the unchanged check: r and
\* its conversion matches are tagged converted when there is a conversion
\* match and no sell-split match, and r is not given the tag otherwise;
\* whenever there is a sell-split match, also next to a conversion match, r
\* is stored tagged sell_splitted and not converted, the sell-split matches
\* are its only direct descendants and the conversion matches stay as they
\* are.
C5_TieBreak ==
    [][ProcessReservation =>
        LET r     == Polled(Head(queue))
            id    == r.ReservationID
            sells == SellSplitMatches(r, reservations)
            conv  == ConversionMatches(r, reservations)
            found == findDirectDescendantsAndUpdateLifecycle(r, reservations)
        IN  FailsUnchanged(r) =>
              /\ (sells = {} /\ conv # {}) =>
                    /\ TagSet(reservations', id) = {"converted"}
                    /\ \A d \in conv : "converted" \in TagSet(reservations', d)
                    /\ { d.ReservationID : d \in found.directDescendants } = conv
              /\ ~(sells = {} /\ conv # {}) =>
                    /\ "converted" \in TagSet(reservations', id) =>
                          /\ sells = {}
                          /\ reservations[id] # NoRow
                          /\ "converted" \in TagSet(reservations, id)
                    /\ \A d \in ReservationIDs \ ({id} \cup sells) :
                          reservations'[d] = reservations[d]
              /\ sells # {} =>
                    /\ TagSet(reservations', id) = {"sell_splitted"}
                    /\ { d.ReservationID : d \in found.directDescendants } = sells
                    /\ \A d \in conv : reservations'[d] = reservations[d]
    ]_vars

\* a reservation was stored sell_splitted while the store held a sell-split
\* match and a conversion match for it at the same time
C5_Witness ==
    \E id \in Processed :
        /\ FailsUnchanged(Polled(id))
        /\ SellSplitMatches(Polled(id), before.reservations) # {}
        /\ ConversionMatches(Polled(id), before.reservations) # {}
        /\ TagSet(reservations, id) = {"sell_splitted"}

\* C6: sell-split classification.  For a reservation r that fails the
\* unchanged check, when the store holds sell-split matches, after
\* InsertIntoPGReservations(r) r and every match carry sell_splitted and
\* there is a relation edge from r to every match.
C6_SellSplit ==
    [][ProcessReservation =>
        LET r     == Polled(Head(queue))
            id    == r.ReservationID
            sells == SellSplitMatches(r, reservations)
        IN  (FailsUnchanged(r) /\ sells # {}) =>
              /\ "sell_splitted" \in TagSet(reservations', id)
              /\ \A d \in sells :
                    /\ reservations'[d] # NoRow
                    /\ "sell_splitted" \in TagSet(reservations', d)
                    /\ <<id, d>> \in reservations_relations'
    ]_vars

\* a reservation with a sell-split match was stored, it and its match carry
\* sell_splitted and the edge is there
C6_Witness ==
    \E id \in Processed :
        /\ FailsUnchanged(Polled(id))
        /\ \E d \in SellSplitMatches(Polled(id), before.reservations) :
              /\ "sell_splitted" \in TagSet(reservations, d)
              /\ <<id, d>> \in reservations_relations
              /\ <<id, d>> \notin before.reservations_relations
        /\ "sell_splitted" \in TagSet(reservations, id)

NoEventForUnlistedCanceled ==
    \A id \in ReservationIDs :
        (/\ reservations[id] # NoRow
         /\ LooksCanceled(reservations[id])
         /\ reservations[id].ListedOn = {}) =>
            \A d \in DerivedEvents : d.e.ReservationID # id

\* C7: cancellation.  A reservation with start + 1s == end that fails the
\* unchanged check and has neither a sell-split nor a conversion match in
\* the store is stored with exactly the tag canceled and is the parent of no
\* relation edge; and no sell event is derived for a reservation of that
\* shape that is on no listing.
C7_Canceled ==
    /\ [][ProcessReservation =>
            LET r  == Polled(Head(queue))
                id == r.ReservationID
            IN  (/\ LooksCanceled(r) /\ FailsUnchanged(r)
                 /\ SellSplitMatches(r, reservations) = {}
                 /\ ConversionMatches(r, reservations) = {}) =>
                    /\ TagSet(reservations', id) = {"canceled"}
                    /\ ParentEdges(reservations_relations', id) = {}
        ]_vars
    /\ []NoEventForUnlistedCanceled

\* a canceled reservation was stored canceled next to another reservation
C7_Witness ==
    \E id \in Processed :
        /\ LooksCanceled(Polled(id))
        /\ aws[id].Fate = "canceled"
        /\ Cardinality(Purchased) > 1
        /\ TagSet(reservations, id) = {"canceled"}
        /\ ParentEdges(reservations_relations, id) = {}

\* C7 as the scenario states it: whatever else the store holds, a canceled
\* reservation (start + 1s == end) is stored canceled, is the parent of no
\* relation edge and has no sell event.
C7_AnyStore ==
    /\ [][ProcessReservation =>
            LET r  == Polled(Head(queue))
                id == r.ReservationID
            IN  (LooksCanceled(r) /\ aws[id].Fate = "canceled") =>
                    /\ TagSet(reservations', id) = {"canceled"}
                    /\ ParentEdges(reservations_relations', id) = {}
        ]_vars
    /\ [](\A id \in Purchased :
            (aws[id].Fate = "canceled" /\ LooksCanceled(Polled(id))) =>
                \A d \in DerivedEvents : d.e.ReservationID # id)

\* C8: unchanged classification.  A reservation with start + duration - 1s
\* == end is stored with exactly the tag unchanged, gets no descendants and
\* no relation edge, and no other row changes, whatever was stored before.
C8_Unchanged ==
    [][ProcessReservation =>
        LET r     == Polled(Head(queue))
            id    == r.ReservationID
            found == findDirectDescendantsAndUpdateLifecycle(r, reservations)
        IN  ~FailsUnchanged(r) =>
              /\ TagSet(reservations', id) = {"unchanged"}
              /\ found.isNil /\ found.directDescendants = {}
              /\ reservations_relations' = reservations_relations
              /\ \A d \in ReservationIDs \ {id} : reservations'[d] = reservations[d]
    ]_vars

\* a reservation that runs its whole duration was stored unchanged although
\* the store held a definitive tag for it and a match that starts at its end
C8_Witness ==
    \E id \in Processed :
        /\ ~FailsUnchanged(Polled(id))
        /\ before.reservations[id] # NoRow
        /\ TagSet(before.reservations, id) \cap Definitive # {}
        /\ Cardinality(Purchased) > 1
        /\ TagSet(reservations, id) = {"unchanged"}

\* C9: fallback.  For a reservation r that fails the unchanged check, has
\* no sell-split or conversion match and is not canceled: its own upsert
\* leaves the tags of an existing row as they are, and stores a new row with
\* exactly the tag unknown.
C9_Fallback ==
    [][ProcessReservation =>
        LET r  == Polled(Head(queue))
            id == r.ReservationID
        IN  (/\ FailsUnchanged(r) /\ ~LooksCanceled(r)
             /\ SellSplitMatches(r, reservations) = {}
             /\ ConversionMatches(r, reservations) = {}) =>
                /\ reservations[id] # NoRow =>
                        reservations'[id].Lifecycle = reservations[id].Lifecycle
                /\ reservations[id] = NoRow =>
                        reservations'[id].Lifecycle = <<"unknown">>
                /\ reservations_relations' = reservations_relations
    ]_vars

\* the remainder of a sale was stored again and kept its tag sell_splitted
C9_Witness ==
    \E id \in Processed :
        /\ FailsUnchanged(Polled(id)) /\ ~LooksCanceled(Polled(id))
        /\ SellSplitMatches(Polled(id), reservations) = {}
        /\ ConversionMatches(Polled(id), reservations) = {}
        /\ before.reservations[id] # NoRow
        /\ TagSet(before.reservations, id) = {"sell_splitted"}
        /\ TagSet(reservations, id) = {"sell_splitted"}

\* C9 read over the whole cycle: the tag set stored for such a reservation
\* when the cycle ends is the one stored when the cycle began, or {unknown}
\* when the cycle began without a row for it.
C9_WholeCycle ==
    (pc = "idle" /\ cycles >= 1 /\ exit = "none") =>
        \A id \in Purchased :
            (/\ FailsUnchanged(Polled(id)) /\ ~LooksCanceled(Polled(id))
             /\ SellSplitMatches(Polled(id), reservations) = {}
             /\ ConversionMatches(Polled(id), reservations) = {}) =>
                IF before.reservations[id] # NoRow
                THEN TagSet(reservations, id) = TagSet(before.reservations, id)
                ELSE TagSet(reservations, id) = {"unknown"}

\* C10: tag persistence.  In the history of one purchase whose dates
\* coincide with no other signature, a definitive tag of a stored
\* reservation is in its tag set after every step of the reservation pass
\* and of the listing pass, and no tag set holds a placeholder next to a
\* definitive tag.
C10_TagPersistence ==
    [][(Cardinality(Bought) = 1 /\ \A p \in Purchased : Ordinary(p)) =>
       \A id \in ReservationIDs :
          reservations[id] # NoRow =>
            /\ reservations'[id] # NoRow
            /\ (TagSet(reservations, id) \cap Definitive) \subseteq TagSet(reservations', id)
            /\ TagSet(reservations', id) \cap Definitive # {} =>
                    TagSet(reservations', id) \cap Placeholders = {}
    ]_vars

\* ------------------------------------------------------------------------
\* C11 : the pristine expiration
\* ------------------------------------------------------------------------

\* the parents the table reservations_relations records for id
RecordedParents(relations, id) == { e[1] : e \in { e \in relations : e[2] = id } }

\* the reservations reached from id by walking the recorded parent links
RECURSIVE WalkUp(_, _, _)
WalkUp(relations, S, n) ==
    IF n = 0 THEN S
    ELSE WalkUp(relations, S \cup UNION { RecordedParents(relations, x) : x \in S }, n - 1)

\* the oldest ancestors of id: those the walk reaches that have no parent
RecordedRoots(relations, id) ==
    { a \in WalkUp(relations, {id}, Cardinality(ReservationIDs)) :
        RecordedParents(relations, a) = {} }

\* the reservation the listing pass is about to resolve
ListedRI == ril[Head(queue)].ReservedInstancesId

MaxModifications == 2

\* an identifier uuid.Parse rejects
MalformedID == "not-a-uuid"

\* uuid.Parse
uuidParses(text) == text \in ReservationIDs

\* models.Reservations of that revision, reduced to the columns the
\* modification events touch
ReservationsRow(id, canceled, converted) ==
    [ReservationID |-> id, Canceled |-> canceled, Converted |-> converted]

\* the modification events the provider can report: the parents are the
\* reservations given up, the results the ones received; a modification that
\* was not fulfilled may have no result
ModificationEvents ==
    { [Status |-> st, ReservedInstancesIds |-> ps, ModificationResults |-> cs] :
        st \in {"fulfilled", "failed"},
        ps \in { {"r1"}, {"r2"}, {"r1", "r2"}, {MalformedID} },
        cs \in { {"r2"}, {"r3"}, {"r2", "r3"} } }

fulfilled(modifications) ==
    { modifications[i] : i \in { i \in DOMAIN modifications :
                                    modifications[i].Status = "fulfilled" } }

\* reservationsUUID of InsertIntoPGReservationsRelations
modifiedUUID(modifications) ==
    UNION { m.ReservedInstancesIds \cup m.ModificationResults : m \in fulfilled(modifications) }

\* relations of InsertIntoPGReservationsRelations
modifiedRelations(modifications) ==
    UNION { m.ReservedInstancesIds \X m.ModificationResults : m \in fulfilled(modifications) }

\* DB.Model(&reservations).Column("converted").WherePK().Update()
updateConverted(table, ids) ==
    [id \in DOMAIN table |->
        IF id \in ids /\ table[id] # NoRow THEN [table[id] EXCEPT !.Converted = TRUE]
        ELSE table[id]]

\* the foreign keys of reservations_relations
relationsForeignKeys(table, edges) ==
    \A e \in edges : /\ e[1] \in DOMAIN table /\ table[e[1]] # NoRow
                     /\ e[2] \in DOMAIN table /\ table[e[2]] # NoRow

\* InsertIntoPGReservationsRelations that does not look at the status
InsertIntoPGReservationsRelations_anyStatus(modifications, table, relations) ==
    LET all   == { modifications[i] : i \in DOMAIN modifications }
        ids   == UNION { m.ReservedInstancesIds \cup m.ModificationResults : m \in all }
        edges == UNION { m.ReservedInstancesIds \X m.ModificationResults : m \in all }
    IN  IF \E id \in ids : ~uuidParses(id)
        THEN { [exit |-> "fatal", table |-> table, relations |-> relations] }
        ELSE IF ~relationsForeignKeys(table, edges)
        THEN { [exit |-> "fatal", table |-> updateConverted(table, ids),
                relations |-> relations] }
        ELSE { [exit |-> "none", table |-> updateConverted(table, ids),
                relations |-> relations \cup edges] }

\* InsertIntoPGReservationsRelations: every outcome of the call.  The update
\* and the upsert run on DB, not on the transaction tx, so the update stays
\* when the upsert fails; what go-pg does with an empty slice is not known,
\* both an error and a no-op are outcomes.
InsertIntoPGReservationsRelations(modifications, table, relations) ==
    LET ids   == modifiedUUID(modifications)
        edges == modifiedRelations(modifications)
        fatal == [exit |-> "fatal", table |-> table, relations |-> relations]
        none  == [exit |-> "none", table |-> table, relations |-> relations]
    IN  IF Len(modifications) = 0
        THEN { none }
        ELSE IF \E id \in ids : ~uuidParses(id)
        THEN { fatal }
        ELSE IF ids = {}
        THEN { fatal, none }
        ELSE IF ~relationsForeignKeys(table, edges)
        THEN { [fatal EXCEPT !.table = updateConverted(table, ids)] }
        ELSE { [exit |-> "none", table |-> updateConverted(table, ids),
                relations |-> relations \cup edges] }

\* the tables the reservation pass can have filled before the events are
\* looked at: any of the reservations stored, none converted so far
ModificationTables ==
    { [id \in ReservationIDs |->
          IF id \in S THEN ReservationsRow(id, id \in C, FALSE) ELSE NoRow] :
        S \in SUBSET ReservationIDs, C \in { {}, {"r1"} } }

ModificationSnapshots ==
    { <<>> } \cup { <<m>> : m \in ModificationEvents }
             \cup { <<m, n>> : m \in ModificationEvents, n \in ModificationEvents }

\* svc.DescribeReservedInstancesModifications
DescribeReservedInstancesModifications ==
    /\ pc = "idle"
    /\ cycles < MaxCycles
    /\ cycles' = cycles + 1
    /\ pc' = "modifications"
    /\ queue' \in { q \in ModificationSnapshots : Len(q) <= MaxModifications }
    /\ exit' = "none"
    /\ before' = [reservations |-> reservations,
                  reservations_relations |-> reservations_relations,
                  reservations_listings_terms |-> reservations_listings_terms]
    /\ UNCHANGED <<provider, store, sellEvents, sortRevision>>

\* the call of InsertIntoPGReservationsRelations on the events
ProcessModifications ==
    /\ pc = "modifications"
    /\ \E out \in InsertIntoPGReservationsRelations(queue, reservations,
                                                    reservations_relations) :
          /\ reservations' = out.table
          /\ reservations_relations' = out.relations
          /\ exit' = out.exit
    /\ pc' = "idle"
    /\ UNCHANGED <<provider, reservations_listings_terms, sellEvents, queue, cycles,
                   before, sortRevision>>

InitModifications ==
    /\ aws = [id \in ReservationIDs |-> NoRI]
    /\ ril = [l \in ListingIDs |-> NoListing]
    /\ reservations \in ModificationTables
    /\ reservations_relations = {}
    /\ reservations_listings_terms = {}
    /\ sellEvents = [l \in ListingIDs |-> <<>>]
    /\ pc = "idle"
    /\ queue = <<>>
    /\ exit = "none"
    /\ cycles = 0
    /\ before = [reservations |-> reservations,
                 reservations_relations |-> reservations_relations,
                 reservations_listings_terms |-> reservations_listings_terms]
    /\ sortRevision = "Before"

NextModifications ==
    \/ DescribeReservedInstancesModifications
    \/ ProcessModifications

SpecModifications == InitModifications /\ [][NextModifications]_vars

\* ------------------------------------------------------------------------
\* C12 : modification events
\* ------------------------------------------------------------------------

SoldListingNext == pc = "listings" /\ queue # <<>> /\ ril[Head(queue)].sold % Uint16 > 0

\* the quantities derived for the listing do not add up to the reported count
Mismatch(events, l) ==
    SumSeq([i \in DOMAIN events |-> events[i].UnitsSold]) % Uint16 # ril[l].sold % Uint16

\* C13: sell-event validation.  When the listing's generations were found
\* and the quantities derived from them do not add up to the sold count the
\* provider reports, the operation returns without error, the cycle goes on
\* with the next listing and no term window is inserted or modified.
C13_SellEventValidation ==
    [][(/\ SoldListingNext
        /\ exit' # "panic"
        /\ Mismatch(sellEvents'[Head(queue)], Head(queue))) =>
           /\ exit' = "none"
           /\ pc' = "listings" /\ queue' = Tail(queue)
           /\ reservations_listings_terms' = reservations_listings_terms
    ]_vars

\* a listing with sold units was processed, two events were derived that do
\* not add up to the reported count, and the pass went on
C13_Witness ==
    /\ pc = "listings" /\ exit = "none"
    /\ \E l \in ListingIDs :
          /\ ril[l] # NoListing /\ ril[l].sold > 0
          /\ l \notin Range(queue)
          /\ Len(sellEvents[l]) = 2
          /\ Mismatch(sellEvents[l], l)
          /\ reservations_listings_terms = before.reservations_listings_terms

\* ------------------------------------------------------------------------
\* The listing terms on the scale of days: one reservation of TermDays days
\* is exchanged, listed with a schedule of monthly terms and sold
\* ------------------------------------------------------------------------

\* time.Hour * 24
Day == 24 * 3600 * Second

\* duration of the reservation, in days
TermDays == 120

\* the listing is published this many days before the pristine expiration
PublishDaysBefore == {60, 75, 100}

\* largest number of terms of a price schedule
MaxTerms == 3

\* a sale happens this many days before the pristine expiration
SaleDaysBefore == {60, 45}

\* the reservation is exchanged this many days after its start
ExchangeDay == 10

\* pristine expiration of the reservation bought at time 0
TermExpiration == TermDays * Day - Second

\* the price schedules of a listing: one element per month left, in
\* descending or ascending order of the term
PriceSchedules(n) ==
    { [i \in 1..n |-> [Term |-> n + 1 - i, Price |-> 1]],
      [i \in 1..n |-> [Term |-> i, Price |-> 1]] }

\* the reservation is put on the marketplace at a date, with a schedule
CreateReservedInstancesListingAt(l, id, date, priceSchedules) ==
    /\ pc = "idle"
    /\ ril[l] = NoListing
    /\ aws[id] # NoRI
    /\ aws[id].State = "active"
    /\ aws[id].Start <= date
    /\ ril' = [ril EXCEPT ![l] =
                 [ReservedInstancesId |-> id, CreateDate |-> date, sold |-> 0,
                  PriceSchedules |-> priceSchedules]]
    /\ aws' = [aws EXCEPT ![id].Listings = @ \cup {l}]
    /\ cycles' = 0
    /\ UNCHANGED <<store, sellEvents, pc, queue, exit, before, sortRevision>>

\* units of the listing are sold at a date
MarketplaceSaleAt(l, id, child, date, k) ==
    /\ aws[id] # NoRI
    /\ ril[l] # NoListing
    /\ ril[l].CreateDate < date
    /\ aws[id].Start < date
    /\ MarketplaceSale(l, id, child, (date - aws[id].Start) \div Second, k)

\* the provider reports other prices for the terms of the listing
ChangePriceSchedules(l) ==
    /\ pc = "idle"
    /\ ril[l] # NoListing
    /\ \A i \in DOMAIN ril[l].PriceSchedules : ril[l].PriceSchedules[i].Price = 1
    /\ ril' = [ril EXCEPT ![l].PriceSchedules =
                 [i \in DOMAIN @ |-> [@[i] EXCEPT !.Price = 2]]]
    /\ cycles' = 0
    /\ UNCHANGED <<aws, store, sellEvents, pc, queue, exit, before, sortRevision>>

InitTerms ==
    /\ aws = [id \in ReservationIDs |->
                IF id = IDSeq[1]
                THEN [ReservedInstances(Offering("standard", "m5", 1), 0, TermExpiration,
                                        MaxCount, {}, "purchase", "none")
                        EXCEPT !.Duration = TermDays * 24 * 3600]
                ELSE NoRI]
    /\ ril = [l \in ListingIDs |-> NoListing]
    /\ reservations = [id \in ReservationIDs |-> NoRow]
    /\ reservations_relations = {}
    /\ reservations_listings_terms = {}
    /\ sellEvents = [l \in ListingIDs |-> <<>>]
    /\ pc = "idle"
    /\ queue = <<>>
    /\ exit = "none"
    /\ cycles = 0
    /\ before = [reservations |-> reservations,
                 reservations_relations |-> reservations_relations,
                 reservations_listings_terms |-> reservations_listings_terms]
    /\ sortRevision \in {"After", "Before"}

NextTerms ==
    \/ \E id, child \in ReservationIDs :
            Exchange(id, child, Offering("standard", "m5", 1), ExchangeDay * 24 * 3600)
    \/ \E l \in ListingIDs, id \in ReservationIDs, p \in PublishDaysBefore, n \in 1..MaxTerms :
            \E priceSchedules \in PriceSchedules(n) :
                CreateReservedInstancesListingAt(l, id, TermExpiration - p * Day,
                                                 priceSchedules)
    \/ \E l \in ListingIDs, id, child \in ReservationIDs, d \in SaleDaysBefore, k \in 1..MaxCount :
            MarketplaceSaleAt(l, id, child, TermExpiration - d * Day, k)
    \/ \E l \in ListingIDs : ChangePriceSchedules(l)
    \/ DescribeReservedInstances
    \/ ProcessReservation
    \/ DescribeReservedInstancesListings
    \/ ProcessListing
    \/ EndCycle

SpecTerms == InitTerms /\ [][NextTerms]_vars

\* ------------------------------------------------------------------------
\* C14 - C17 : the term windows of a listing
\* ------------------------------------------------------------------------

\* the listing pass is about to process a listing
ListingNext == pc = "listings" /\ queue # <<>>

\* the rows of reservations_listings_terms the step inserted or changed
WrittenTerms == reservations_listings_terms' \ reservations_listings_terms

\* quantities of the events dated from start (included) to end (excluded)
UnitsFromTo(events, start, end) ==
    SumSeq([i \in DOMAIN events |->
               IF start <= events[i].SoldDate /\ events[i].SoldDate < end
               THEN events[i].UnitsSold ELSE 0])

\* quantities of the events dated strictly between start and end
UnitsBetween(events, start, end) ==
    SumSeq([i \in DOMAIN events |->
               IF start < events[i].SoldDate /\ events[i].SoldDate < end
               THEN events[i].UnitsSold ELSE 0])

\* C14: sold-unit attribution.  The units_sold of every term window the
\* listing pass writes is the sum of the quantities of the listing's sell
\* events dated d with window_start <= d < window_end.
C14_Attribution ==
    [][(ListingNext /\ exit' = "none") =>
          \A row \in WrittenTerms :
              row.UnitsSold = UnitsFromTo(sellEvents'[Head(queue)],
                                          row.StartDate, row.EndDate)
    ]_vars

\* the keys (listing id, window start) of the stored term windows
TermKeys(terms) == { <<t.ListingID, t.StartDate>> : t \in terms }

\* the rows the step inserted under a key that was not stored
InsertedTerms ==
    { row \in reservations_listings_terms' :
        <<row.ListingID, row.StartDate>> \notin TermKeys(reservations_listings_terms) }

\* C15: term window bounds.  Every window the listing pass inserts belongs
\* to a term t of the listing's n terms, ends at pristine expiration - t * 30
\* days and starts 30 days before its end, except that the window of term n
\* starts at the listing's publish date.
C15_WindowBounds ==
    [][ListingNext =>
          LET l == Head(queue)
              n == Len(ril[l].PriceSchedules)
              publish == parseDate(FormatDate(ril[l].CreateDate))
          IN  \A row \in InsertedTerms :
                  /\ row.ListingID = l
                  /\ \E exp \in getOriginalReservationExpirationDate(
                                    ril[l].ReservedInstancesId, reservations,
                                    reservations_relations) :
                     \E i \in 1..n :
                        LET t == ril[l].PriceSchedules[i].Term
                        IN  /\ row.EndDate = exp - t * 30 * Day
                            /\ row.StartDate = IF t = n THEN publish
                                               ELSE row.EndDate - 30 * Day
    ]_vars

\* a listing of two terms published 75 days before the expiration was
\* written: the window of term 2 starts at the publish date and is 15 days
\* long, the window of term 1 is the 30 days after it
C15_Witness ==
    /\ pc = "listings" /\ exit = "none" /\ queue = <<>>
    /\ \E l \in ListingIDs :
          /\ ril[l] # NoListing
          /\ Len(ril[l].PriceSchedules) = 2
          /\ ril[l].CreateDate = TermExpiration - 75 * Day
          /\ \E w1, w2 \in reservations_listings_terms :
                /\ w1.ListingID = l /\ w2.ListingID = l
                /\ w2.StartDate = ril[l].CreateDate
                /\ w2.EndDate = TermExpiration - 60 * Day
                /\ w1.StartDate = TermExpiration - 60 * Day
                /\ w1.EndDate = TermExpiration - 30 * Day

\* C15, the example: after the listing pass has processed a listing of 2
\* terms published 60 days before the pristine expiration of its source
\* reservation, the store holds term 1 = [expiration - 60d, expiration - 30d)
\* and term 2 = [publish date, expiration - 60d).
C15_Example ==
    \A l \in ListingIDs :
        (/\ pc = "listings" /\ exit = "none" /\ queue = <<>>
         /\ ril[l] # NoListing
         /\ Len(ril[l].PriceSchedules) = 2
         /\ ril[l].CreateDate = TermExpiration - 60 * Day
         /\ aws[ril[l].ReservedInstancesId].Parent = "none"
         /\ ~Mismatch(sellEvents[l], l)) =>
            /\ \E w \in reservations_listings_terms :
                  /\ w.ListingID = l
                  /\ w.StartDate = TermExpiration - 60 * Day
                  /\ w.EndDate = TermExpiration - 30 * Day
            /\ \E w \in reservations_listings_terms :
                  /\ w.ListingID = l
                  /\ w.StartDate = ril[l].CreateDate
                  /\ w.EndDate = TermExpiration - 60 * Day

\* the row InsertIntoPGReservationsListingsTerms builds for element i of the
\* schedule of listing l, with pristine expiration exp and the events derived
TermRow(l, i, exp, events) ==
    LET priceSchedule == ril[l].PriceSchedules[i]
        start == termStartDate(priceSchedule, Len(ril[l].PriceSchedules),
                               parseDate(FormatDate(ril[l].CreateDate)), exp)
        end   == termEndDate(priceSchedule, exp)
    IN  [ListingID |-> l, StartDate |-> start, EndDate |-> end,
         UnitsSold |-> unitsSoldInWindow(start, end, sellEventsMap(events)),
         UpfrontPrice |-> priceSchedule.Price * NanoDollars]

\* the step upserts every window of the listing: the sell events pass the
\* validation and the checks of the table accept every row
AllTermsUpserted(exp) ==
    /\ ListingNext
    /\ exit' = "none"
    /\ ~Mismatch(sellEvents'[Head(queue)], Head(queue))
    /\ getOriginalReservationExpirationDate(ril[Head(queue)].ReservedInstancesId,
                                            reservations, reservations_relations) = {exp}
    /\ \A i \in DOMAIN ril[Head(queue)].PriceSchedules :
          reservationsListingsTermsChecks(TermRow(Head(queue), i, exp, sellEvents'[Head(queue)]))

StoredTerm(terms, l, start) == { t \in terms : t.ListingID = l /\ t.StartDate = start }

\* C16: term window overwrite.  Windows are keyed by (listing id, window
\* start); whenever the listing pass upserts a window, the stored row of its
\* key holds the newly computed units-sold and the newly computed upfront
\* price, also when the key was stored by an earlier cycle.
C16_Overwrite ==
    [][\A exp \in {TermExpiration, TermExpiration + ExchangeDay * Day} :
        AllTermsUpserted(exp) =>
          \A i \in DOMAIN ril[Head(queue)].PriceSchedules :
             LET new == TermRow(Head(queue), i, exp, sellEvents'[Head(queue)])
             IN  \E t \in StoredTerm(reservations_listings_terms', new.ListingID, new.StartDate) :
                    /\ t.UnitsSold = new.UnitsSold
                    /\ t.UpfrontPrice = new.UpfrontPrice
    ]_vars

\* C16 as the code has it: the stored row of an upserted key holds the newly
\* computed units-sold; its upfront price and its end date are the newly
\* computed ones when the key was not stored, and the stored ones otherwise.
C16_UnitsOnly ==
    [][\A exp \in {TermExpiration, TermExpiration + ExchangeDay * Day} :
        AllTermsUpserted(exp) =>
          \A i \in DOMAIN ril[Head(queue)].PriceSchedules :
             LET new == TermRow(Head(queue), i, exp, sellEvents'[Head(queue)])
                 old == StoredTerm(reservations_listings_terms, new.ListingID, new.StartDate)
                 now == StoredTerm(reservations_listings_terms', new.ListingID, new.StartDate)
             IN  /\ Cardinality(now) = 1
                 /\ \A t \in now :
                      /\ t.UnitsSold = new.UnitsSold
                      /\ old = {} => t.UpfrontPrice = new.UpfrontPrice /\ t.EndDate = new.EndDate
                      /\ \A o \in old : t.UpfrontPrice = o.UpfrontPrice /\ t.EndDate = o.EndDate
    ]_vars

\* a window stored with no unit sold and the first price was upserted again
\* after a sale and a change of the prices: the units are the new ones, the
\* price is the first one
C16_Witness ==
    /\ pc = "listings" /\ exit = "none" /\ queue = <<>>
    /\ \E t \in reservations_listings_terms, o \in before.reservations_listings_terms :
          /\ t.ListingID = o.ListingID /\ t.StartDate = o.StartDate
          /\ o.UnitsSold = 0 /\ t.UnitsSold > 0
          /\ t.UpfrontPrice = NanoDollars
          /\ \A i \in DOMAIN ril[t.ListingID].PriceSchedules :
                ril[t.ListingID].PriceSchedules[i].Price = 2

\* the number of whole 30-day windows between the publish date of a listing
\* and the pristine expiration of its reservation
expectedTerms(reservationOriginalExpirationDate, listingPublishDate) ==
    (reservationOriginalExpirationDate - listingPublishDate) \div oneMonthDuration

\* C17: term-count mismatch.  When the number of price-schedule terms of the
\* listing differs from the number of whole 30-day windows between its
\* publish date and the pristine expiration, the listing pass writes no term
\* window for the listing and returns without error.
C17_TermCountMismatch ==
    [][\A exp \in {TermExpiration, TermExpiration + ExchangeDay * Day} :
        ( /\ ListingNext
          /\ getOriginalReservationExpirationDate(ril[Head(queue)].ReservedInstancesId,
                                                  reservations, reservations_relations) = {exp}
          /\ expectedTerms(exp, parseDate(FormatDate(ril[Head(queue)].CreateDate)))
               # Len(ril[Head(queue)].PriceSchedules) )
        => /\ exit' = "none"
           /\ reservations_listings_terms' = reservations_listings_terms
    ]_vars

\* ------------------------------------------------------------------------
\* Failing writes and malformed records
\* ------------------------------------------------------------------------

\* the store InsertIntoPGReservations leaves when its failed-th upsert returns
\* an error: upsert is called on DB, outside any transaction, so the upserts
\* before the failing one stay
InsertIntoPGReservationsFailing(values, FP, listings, table, relations, failed) ==
    LET reservation == Reservation(values, FP, listings)
        found == findDirectDescendantsAndUpdateLifecycle(reservation, table)
        own   == upsert(table, reservation.ReservationID, found.r, {"State", "Lifecycle"})
    IN  IF failed = 1
        THEN [reservations |-> table, reservations_relations |-> relations]
        ELSE IF failed = 2
        THEN [reservations |-> own, reservations_relations |-> relations]
        ELSE [reservations |-> upsertAll(own, found.directDescendants, {"Lifecycle"}),
              reservations_relations |-> relations]

\* the number of upserts InsertIntoPGReservations performs for the labels
upsertsOf(values, FP, listings, table) ==
    IF findDirectDescendantsAndUpdateLifecycle(Reservation(values, FP, listings), table).isNil
    THEN 1 ELSE 3

InsertAt(q, p, x) == SubSeq(q, 1, p - 1) \o <<x>> \o SubSeq(q, p, Len(q))

\* svc.DescribeReservedInstances returns, among the reservations, one record
\* whose ReservedInstancesId is not a UUID
DescribeReservedInstancesMalformed ==
    /\ pc = "idle"
    /\ cycles < MaxCycles
    /\ cycles' = cycles + 1
    /\ pc' = "reservations"
    /\ \E q \in sortedReservedInstances(Purchased), p \in 1..(Cardinality(Purchased) + 1) :
          queue' = InsertAt(q, p, MalformedID)
    /\ exit' = "none"
    /\ sellEvents' = [l \in ListingIDs |-> <<>>]
    /\ before' = [reservations |-> reservations,
                  reservations_relations |-> reservations_relations,
                  reservations_listings_terms |-> reservations_listings_terms]
    /\ UNCHANGED <<provider, store, sortRevision>>

\* uuid.Parse of ri_id succeeds and every upsert does
ProcessReservationParsed ==
    /\ queue # <<>>
    /\ uuidParses(Head(queue))
    /\ ProcessReservation

\* uuid.Parse of ri_id fails: InsertIntoPGReservations returns the error
\* before any write and GetReservationsInfo calls log.Fatal
ProcessReservationMalformed ==
    /\ pc = "reservations"
    /\ queue # <<>>
    /\ ~uuidParses(Head(queue))
    /\ exit' = "fatal"
    /\ pc' = "exited"
    /\ queue' = <<>>
    /\ UNCHANGED <<provider, store, sellEvents, cycles, before, sortRevision>>

\* one of the upserts of InsertIntoPGReservations returns an error:
\* GetReservationsInfo calls log.Fatal
ProcessReservationFails ==
    /\ pc = "reservations"
    /\ queue # <<>>
    /\ uuidParses(Head(queue))
    /\ LET id == Head(queue)
       IN  \E failed \in 1..upsertsOf(Labels(id), aws[id].FixedPrice, aws[id].Listings,
                                      reservations) :
              LET new == InsertIntoPGReservationsFailing(
                             Labels(id), aws[id].FixedPrice, aws[id].Listings,
                             reservations, reservations_relations, failed)
              IN  /\ reservations' = new.reservations
                  /\ reservations_relations' = new.reservations_relations
    /\ exit' = "fatal"
    /\ pc' = "exited"
    /\ queue' = <<>>
    /\ UNCHANGED <<provider, reservations_listings_terms, sellEvents, cycles, before,
                   sortRevision>>

InitFaults ==
    /\ Init
    /\ sortRevision = "After"

\* log.Fatal ends the process: no action is enabled at pc = "exited"
NextFaults ==
    \/ \E id \in ReservationIDs, o \in BaseOfferings, s \in 0..MaxStart :
            Purchase(id, o, s * Second + SubSecond(s))
    \/ \E l \in ListingIDs, id \in ReservationIDs : CreateReservedInstancesListing(l, id)
    \/ \E l \in ListingIDs, id, child \in ReservationIDs, off \in 1..MaxCut, k \in 1..MaxCount :
            MarketplaceSale(l, id, child, off, k)
    \/ \E id, child \in ReservationIDs, o \in BaseOfferings, off \in 1..MaxCut :
            Exchange(id, child, o, off)
    \/ DescribeReservedInstances
    \/ DescribeReservedInstancesMalformed
    \/ ProcessReservationParsed
    \/ ProcessReservationMalformed
    \/ ProcessReservationFails
    \/ DescribeReservedInstancesListings
    \/ ProcessListing
    \/ EndCycle

SpecFaults == InitFaults /\ [][NextFaults]_vars

\* ------------------------------------------------------------------------
\* C18 - C20 : atomicity and parse errors
\* ------------------------------------------------------------------------

\* C18: family write atomicity.  The upsert of the reservation, the upsert of
\* the tags of its direct descendants and the upsert of the new relation
\* edges are one transaction: when any of the three fails the store shows
\* none of them.
C18_FamilyAtomicity ==
    [][( /\ pc = "reservations"
         /\ queue # <<>>
         /\ uuidParses(Head(queue))
         /\ exit' = "fatal" )
       => /\ reservations' = reservations
          /\ reservations_relations' = reservations_relations
    ]_vars

\* C20: parse errors.  A record with a malformed reservation identifier is
\* skipped: nothing is written for it, the remaining records of the cycle are
\* still to be processed and the cycle goes on.
C20_ParseErrors ==
    [][( /\ pc = "reservations"
         /\ queue # <<>>
         /\ ~uuidParses(Head(queue)) )
       => /\ exit' = "none"
          /\ pc' = "reservations"
          /\ queue' = Tail(queue)
          /\ store' = store
    ]_vars

\* every window of the schedule of listing l has a row in terms
AllWindowsStored(l, table, relations, events, terms) ==
    \E exp \in getOriginalReservationExpirationDate(ril[l].ReservedInstancesId, table, relations) :
       \A i \in DOMAIN ril[l].PriceSchedules :
          StoredTerm(terms, l, TermRow(l, i, exp, events).StartDate) # {}

\* C19: listing write atomicity.  The writes derived for one listing in one
\* cycle, the sold tags of its reservations and all of its term windows, are
\* applied all or nothing: after the listing pass processed the listing the
\* store is either as it was or holds every term window of the listing.
C19_ListingAtomicity ==
    [][ListingNext =>
          \/ /\ reservations' = reservations
             /\ reservations_listings_terms' = reservations_listings_terms
          \/ AllWindowsStored(Head(queue), reservations, reservations_relations,
                              sellEvents'[Head(queue)], reservations_listings_terms')
    ]_vars

\* ------------------------------------------------------------------------
\* The walks of getOriginalReservationExpirationDate in src/unnamed/part_005:
\* two loops over reservations_relations, one upwards to the oldest parent
\* and one downwards to the youngest descendant
\* ------------------------------------------------------------------------

\* models.Reservations of that revision, reduced to the columns the walks read
WalkRow(id, start) ==
    [ReservationID |-> id, StartDate |-> start * Second,
     OriginalEndDate |-> start * Second + Duration * Second - Second]

\* the stored reservations the walks run on
WalkTables ==
    { [id \in ReservationIDs |-> WalkRow(id, start[id])] :
        start \in [ReservationIDs -> 0..MaxStart] }

\* any rows of reservations_relations the foreign keys admit: the table has
\* no constraint against a self-edge or a cycle
WalkRelations == SUBSET (ReservationIDs \X ReservationIDs)

\* JOIN ... ON reservation_id = r.parent_id WHERE r.reservation_id = id
\* ORDER BY start_date LIMIT 1
oldestParentOf(id, table, relations) ==
    LET parents == { e[1] : e \in { e \in relations : e[2] = id } }
    IN  { p \in parents : \A o \in parents : table[p].StartDate <= table[o].StartDate }

\* JOIN ... ON reservation_id = r.reservation_id WHERE r.parent_id = id
\* ORDER BY original_end_date ASC LIMIT 1
youngestDescendantOf(id, table, relations) ==
    LET children == { e[2] : e \in { e \in relations : e[1] = id } }
    IN  { c \in children :
            \A o \in children : table[c].OriginalEndDate <= table[o].OriginalEndDate }

\* the passes of a loop are counted modulo MaxHops
MaxHops == 4

\* the call for a stored, retired reservation r: oldestParent := r
StartWalk(r) ==
    /\ pc = "idle"
    /\ cycles < MaxCycles
    /\ cycles' = cycles + 1
    /\ pc' = "walkUp"
    /\ queue' = <<r, r, 0>>
    /\ exit' = "none"
    /\ UNCHANGED <<provider, store, sellEvents, before, sortRevision>>

\* one pass of the first loop: the query finds a parent and the loop goes on
\* from it, or finds none and the loop breaks
WalkUpStep ==
    /\ pc = "walkUp"
    /\ LET r == queue[1]
           oldestParent == queue[2]
           found == oldestParentOf(oldestParent, reservations, reservations_relations)
       IN  IF found # {}
           THEN /\ \E temp \in found : queue' = <<r, temp, (queue[3] + 1) % MaxHops>>
                /\ pc' = "walkUp"
           ELSE IF oldestParent = r
                THEN pc' = "idle" /\ queue' = <<>>
                ELSE pc' = "walkDown" /\ queue' = <<r, oldestParent, r, 0>>
    /\ UNCHANGED <<provider, store, sellEvents, exit, cycles, before, sortRevision>>

\* one pass of the second loop
WalkDownStep ==
    /\ pc = "walkDown"
    /\ LET youngestDescendnt == queue[3]
           found == youngestDescendantOf(youngestDescendnt, reservations,
                                         reservations_relations)
       IN  IF found # {}
           THEN /\ \E temp \in found :
                      queue' = <<queue[1], queue[2], temp, (queue[4] + 1) % MaxHops>>
                /\ pc' = "walkDown"
           ELSE pc' = "idle" /\ queue' = <<>>
    /\ UNCHANGED <<provider, store, sellEvents, exit, cycles, before, sortRevision>>

InitWalk ==
    /\ aws = [id \in ReservationIDs |-> NoRI]
    /\ ril = [l \in ListingIDs |-> NoListing]
    /\ reservations \in WalkTables
    /\ reservations_relations \in WalkRelations
    /\ reservations_listings_terms = {}
    /\ sellEvents = [l \in ListingIDs |-> <<>>]
    /\ pc = "idle"
    /\ queue = <<>>
    /\ exit = "none"
    /\ cycles = 0
    /\ before = [reservations |-> reservations,
                 reservations_relations |-> reservations_relations,
                 reservations_listings_terms |-> reservations_listings_terms]
    /\ sortRevision = "Before"

NextWalk ==
    \/ \E r \in ReservationIDs : StartWalk(r)
    \/ WalkUpStep
    \/ WalkDownStep

\* the loops are sequential code: a pass that can run does run
SpecWalk ==
    InitWalk /\ [][NextWalk]_vars /\ WF_vars(WalkUpStep) /\ WF_vars(WalkDownStep)

\* ------------------------------------------------------------------------
\* C21 : the walks end
\* ------------------------------------------------------------------------

\* C21: bounded graph walk.  On every relation graph, also one that contains
\* a cycle, the walk up to the oldest ancestor and the walk down to the
\* youngest descendant stop: a call of getOriginalReservationExpirationDate
\* that started returns.
C21_BoundedWalk == (pc # "idle") ~> (pc = "idle")

\* ------------------------------------------------------------------------
\* C22 - C23 : the sell events of a listing
\* ------------------------------------------------------------------------

\* the stored reservation that ends last among those of the listing about to
\* be processed, when there is exactly one
YoungestOfListing ==
    LET inListing == { d \in Rows(reservations) : Head(queue) \in d.ListedOn }
    IN  { y \in inListing : \A o \in inListing \ {y} : o.EndDate < y.EndDate }

\* a sell event of the whole count of y at its end date
WholeCountEvent(events, y) ==
    \E i \in DOMAIN events :
        /\ events[i].ReservationID = y.ReservationID
        /\ events[i].SoldDate = y.EndDate
        /\ events[i].UnitsSold = y.Count

\* C22: youngest-generation sale.  Of the reservations listed under a listing
\* with sold units, the one that ends last contributes a sell event of its
\* whole count at its end date, and gets the tag sold, exactly when its end
\* date plus one second is before the pristine expiration of the lineage;
\* this for any number of generations, a single one included.
C22_YoungestSale ==
    [][(SoldListingNext /\ exit' = "none")
       => \A y \in YoungestOfListing :
          \E exp \in getOriginalReservationExpirationDate(ListedRI, reservations,
                                                          reservations_relations) :
             IF y.EndDate + Second < exp
             THEN /\ WholeCountEvent(sellEvents'[Head(queue)], y)
                  /\ "sold" \in TagSet(reservations', y.ReservationID)
             ELSE /\ ~WholeCountEvent(sellEvents'[Head(queue)], y)
                  /\ reservations'[y.ReservationID] = reservations[y.ReservationID]
    ]_vars

\* number of stored reservations listed under the listing about to be processed
GenerationsOfListing ==
    Cardinality({ d \in Rows(reservations) : Head(queue) \in d.ListedOn })

\* C22 as the code has it: with two generations or more the one that ends
\* last contributes its whole count, and gets the tag sold, exactly when its
\* end date plus one second is before the pristine expiration; a single
\* generation always contributes its whole count and gets the tag.
C22_YoungestOfSeveral ==
    [][(SoldListingNext /\ exit' = "none")
       => \A y \in YoungestOfListing :
          \E exp \in getOriginalReservationExpirationDate(ListedRI, reservations,
                                                          reservations_relations) :
             IF GenerationsOfListing = 1 \/ y.EndDate + Second < exp
             THEN /\ WholeCountEvent(sellEvents'[Head(queue)], y)
                  /\ "sold" \in TagSet(reservations', y.ReservationID)
             ELSE /\ Len(sellEvents'[Head(queue)]) = GenerationsOfListing - 1
                  /\ reservations'[y.ReservationID] = reservations[y.ReservationID]
    ]_vars

\* a listing of two generations or more was processed: the one that ends
\* last ended more than a second before the pristine expiration, its whole
\* count is the last sell event and it has the tag sold
C22_Witness ==
    /\ pc = "listings" /\ exit = "none"
    /\ \E l \in ListingIDs :
          /\ ril[l] # NoListing /\ ril[l].sold > 0 /\ l \notin Range(queue)
          /\ Len(sellEvents[l]) >= 2
          /\ LET last == sellEvents[l][Len(sellEvents[l])]
                 y    == reservations[last.ReservationID]
             IN  /\ last.UnitsSold = y.Count
                 /\ last.SoldDate = y.EndDate
                 /\ "sold" \in TagSet(reservations, y.ReservationID)
                 /\ \E exp \in getOriginalReservationExpirationDate(
                                   ril[l].ReservedInstancesId, reservations,
                                   reservations_relations) : y.EndDate + Second < exp

\* C23: per-generation sold quantity.  Every sell event derived for a listing
\* has a positive quantity that is at most the count of its reservation (the
\* unsigned 16-bit subtraction did not wrap and did not give zero), and an
\* event followed by another one has the quantity count[i] - count[i+1].
C23_Quantities ==
    [][(SoldListingNext /\ exit' = "none")
       => LET events == sellEvents'[Head(queue)]
          IN  \A i \in DOMAIN events :
                 /\ events[i].UnitsSold > 0
                 /\ events[i].UnitsSold <= reservations[events[i].ReservationID].Count
                 /\ i < Len(events) =>
                       events[i].UnitsSold =
                           reservations[events[i].ReservationID].Count
                             - reservations[events[i + 1].ReservationID].Count
    ]_vars

\* ------------------------------------------------------------------------
\* C24 - C26 : the stored reservations and their relations
\* ------------------------------------------------------------------------

\* C24: stored reservation tracks the snapshot.  Once the reservation pass
\* processed reservation r of the snapshot, the stored end date, instance
\* count and listing references of r are those of the snapshot, also when r
\* was stored by an earlier cycle with other values.
C24_TracksSnapshot ==
    [][(pc = "reservations" /\ queue # <<>>)
       => LET id == Head(queue)
          IN  /\ reservations'[id].EndDate = Polled(id).EndDate
              /\ reservations'[id].Count = Polled(id).Count
              /\ reservations'[id].ListedOn = Polled(id).ListedOn
    ]_vars

ExchangeWithinSecond(id, child, o) ==
    /\ pc = "idle"
    /\ aws[id] # NoRI
    /\ aws[id].State = "active"
    /\ aws[id].Listings = {}
    /\ FormatDate(aws[id].Start + 1) = FormatDate(aws[id].Start)
    /\ aws[id].Start + 1 < aws[id].End
    /\ o.OfferingClass = aws[id].OfferingClass
    /\ aws[id].OfferingClass # "convertible" =>
            o.Family = aws[id].Family /\ o.FixedPrice = aws[id].FixedPrice
    /\ CanCreate(child)
    /\ LET x == aws[id].Start + 1
       IN  aws' = [aws EXCEPT
                 ![id].End = x, ![id].State = "retired", ![id].Fate = "exchanged",
                 ![child] = [ReservedInstances(o, x, aws[id].End, aws[id].InstanceCount,
                                               {}, "exchange", id)
                               EXCEPT !.Duration = aws[id].Duration]]
    /\ cycles' = 0
    /\ UNCHANGED <<ril, store, sellEvents, pc, queue, exit, before, sortRevision>>

NextInstant ==
    \/ \E id \in ReservationIDs, o \in BaseOfferings, s \in 0..MaxStart :
            Purchase(id, o, s * Second + SubSecond(s))
    \/ \E id, child \in ReservationIDs, o \in Offerings : ExchangeWithinSecond(id, child, o)
    \/ \E id, child \in ReservationIDs, o \in Offerings, off \in 1..MaxCut :
            Exchange(id, child, o, off)
    \/ DescribeReservedInstances
    \/ ProcessReservation
    \/ DescribeReservedInstancesListings
    \/ EndCycle

SpecInstant == Init /\ [][NextInstant]_vars

\* the reservations reached from id along one edge or more, at most n deep
RECURSIVE Descendants(_, _, _)
Descendants(relations, S, n) ==
    LET next == { e[2] : e \in { e \in relations : e[1] \in S } }
    IN  IF n = 0 \/ next = {} THEN {} ELSE next \cup Descendants(relations, next, n - 1)

\* no reservation is its own descendant
Acyclic(relations) ==
    \A id \in ReservationIDs :
        id \notin Descendants(relations, {id}, Cardinality(ReservationIDs))

\* C26: acyclic lineage.  In every store state the relation edges hold no
\* self-edge and no directed cycle, and every edge leads from a reservation
\* to one that starts no earlier than the parent ends.
C26_Acyclic ==
    /\ Acyclic(reservations_relations)
    /\ \A e \in reservations_relations :
          reservations[e[1]].EndDate <= reservations[e[2]].StartDate

\* ------------------------------------------------------------------------
\* C27 - C28 : the sold units of a listing
\* ------------------------------------------------------------------------

\* the windows computed for the listing about to be processed
WindowsOfListing(exp) ==
    { TermRow(Head(queue), i, exp, sellEvents'[Head(queue)]) :
         i \in DOMAIN ril[Head(queue)].PriceSchedules }

\* every sell event lies from the first window's start to the last window's end
EventsWithinWindows(exp) ==
    \A i \in DOMAIN sellEvents'[Head(queue)] :
        /\ \E w \in WindowsOfListing(exp) : w.StartDate <= sellEvents'[Head(queue)][i].SoldDate
        /\ \E w \in WindowsOfListing(exp) : sellEvents'[Head(queue)][i].SoldDate < w.EndDate

\* C27: no sold unit is lost in attribution.  When the sell-event validation
\* passes, every window of the listing is written and every sell event lies
\* from the first window's start to the last window's end, the units_sold of
\* the listing's windows add up to the sold count the provider reports.
C27_NoUnitLost ==
    [][\A exp \in {TermExpiration, TermExpiration + ExchangeDay * Day} :
        (AllTermsUpserted(exp) /\ SoldListingNext /\ EventsWithinWindows(exp))
        => LET rows == { t \in reservations_listings_terms' :
                            /\ t.ListingID = Head(queue)
                            /\ \E w \in WindowsOfListing(exp) : w.StartDate = t.StartDate }
           IN  SumOver([t \in rows |-> t.UnitsSold], rows) = ril[Head(queue)].sold % Uint16
    ]_vars

\* the reservations SELECT ... WHERE ? = ANY (listed_on) returns for the
\* listing about to be processed
FoundInListing == { d \in Rows(reservations) : Head(queue) \in d.ListedOn }

\* no stored reservation references the listing, or the single one found is
\* not the reservation the listing was created for
MissingLineage ==
    /\ reservations[ListedRI] # NoRow
    /\ \/ FoundInListing = {}
       \/ /\ Cardinality(FoundInListing) = 1
          /\ \A d \in FoundInListing : d.ReservationID # ListedRI

\* C28: missing-lineage error path.  When a listing reports sold units and no
\* stored reservation references it, or the single one found is not its
\* source reservation, InsertIntoPGReservationsListingsTerms returns an
\* ordinary error to its caller, without crashing, and writes nothing.
C28_MissingLineage ==
    [][(SoldListingNext /\ MissingLineage)
       => /\ exit' = "fatal"
          /\ store' = store
    ]_vars

\* ------------------------------------------------------------------------
\* C29 : the order of the reservation pass
\* ------------------------------------------------------------------------

\* C29: processing order.  Within one cycle the reservations of the snapshot
\* are processed in ascending start-date order: the reservation processed
\* next started no later than any reservation still to be processed.
C29_OldestFirst ==
    (pc = "reservations" /\ queue # <<>>)
    => \A i \in DOMAIN queue : aws[Head(queue)].Start <= aws[queue[i]].Start

\* ------------------------------------------------------------------------
\* C30 : the poll loop of main.go and the passes it starts
\* ------------------------------------------------------------------------
\* The loop goroutine calls instances(), starts one goroutine per reservations()
\* pass and sleeps.  Here pc is the position of the loop goroutine, queue holds
\* the reservations() goroutines that were started and have not returned,
\* cycles counts the passes started, and the variable reservations holds the
\* gauge vector riInstanceCount (reservation id -> value, 0 when absent).
\* instanceLabelsCacheMutex is held for writing while pc = "instances" and
\* for reading by every pass that is past its RLock.

\* passes the loop may start
MaxPasses == 3

riInstanceCount == reservations

\* a reservations() goroutine: its position and the rest of resp.ReservedInstances
Pass(at, todo) == [at |-> at, todo |-> todo]

\* passes that hold the read lock
Readers == { i \in DOMAIN queue : queue[i].at # "start" }

RemoveAt(q, i) == SubSeq(q, 1, i - 1) \o SubSeq(q, i + 1, Len(q))

\* resp.ReservedInstances, in the order of the response
activeReservedInstances == SelectSeq(IDSeq, LAMBDA id : id \in Purchased)

\* <-time.After(options.duration), then instances() calls Lock
TimerFires ==
    /\ pc = "sleep"
    /\ cycles < MaxPasses
    /\ pc' = "lock"
    /\ UNCHANGED <<provider, store, sellEvents, queue, exit, cycles, before, sortRevision>>

\* instanceLabelsCacheMutex.Lock() returns once no pass holds the read lock
Lock ==
    /\ pc = "lock"
    /\ Readers = {}
    /\ pc' = "instances"
    /\ UNCHANGED <<provider, store, sellEvents, queue, exit, cycles, before, sortRevision>>

\* instances() rebuilds the label cache and returns, releasing the lock
Unlock ==
    /\ pc = "instances"
    /\ pc' = "go"
    /\ UNCHANGED <<provider, store, sellEvents, queue, exit, cycles, before, sortRevision>>

\* go reservations(svc, options.region)
GoReservations ==
    /\ pc = "go"
    /\ queue' = Append(queue, Pass("start", <<>>))
    /\ cycles' = cycles + 1
    /\ pc' = "sleep"
    /\ UNCHANGED <<provider, store, sellEvents, exit, before, sortRevision>>

\* instanceLabelsCacheMutex.RLock(): shared, blocked by a writer that holds
\* or waits for the lock
RLock(i) ==
    /\ queue[i].at = "start"
    /\ pc \notin {"lock", "instances"}
    /\ queue' = [queue EXCEPT ![i] = Pass("locked", <<>>)]
    /\ UNCHANGED <<provider, store, sellEvents, pc, exit, cycles, before, sortRevision>>

\* riInstanceCount.Reset()
Reset(i) ==
    /\ queue[i].at = "locked"
    /\ reservations' = [id \in ReservationIDs |-> 0]
    /\ queue' = [queue EXCEPT ![i] = Pass("reset", <<>>)]
    /\ UNCHANGED <<provider, reservations_relations, reservations_listings_terms,
                   sellEvents, pc, exit, cycles, before, sortRevision>>

\* svc.DescribeReservedInstances(params)
Describe(i) ==
    /\ queue[i].at = "reset"
    /\ queue' = [queue EXCEPT ![i] = Pass("adding", activeReservedInstances)]
    /\ UNCHANGED <<provider, store, sellEvents, pc, exit, cycles, before, sortRevision>>

\* riInstanceCount.With(labels).Add(float64(*r.InstanceCount))
Add(i) ==
    /\ queue[i].at = "adding"
    /\ queue[i].todo # <<>>
    /\ LET id == Head(queue[i].todo)
       IN  reservations' = [reservations EXCEPT
                              ![id] = reservations[id] + aws[id].InstanceCount]
    /\ queue' = [queue EXCEPT ![i] = Pass("adding", Tail(queue[i].todo))]
    /\ UNCHANGED <<provider, reservations_relations, reservations_listings_terms,
                   sellEvents, pc, exit, cycles, before, sortRevision>>

\* the pass returns: the deferred RUnlock
RUnlock(i) ==
    /\ queue[i].at = "adding"
    /\ queue[i].todo = <<>>
    /\ queue' = RemoveAt(queue, i)
    /\ UNCHANGED <<provider, store, sellEvents, pc, exit, cycles, before, sortRevision>>

PassStarts == \E i \in DOMAIN queue : RLock(i)

PassResets == \E i \in DOMAIN queue : Reset(i)

PassDescribes == \E i \in DOMAIN queue : Describe(i)

PassAdds == \E i \in DOMAIN queue : Add(i)

PassReturns == \E i \in DOMAIN queue : RUnlock(i)

\* the active reservations do not change while the loop runs
InitPoll ==
    /\ \E n \in 1..Len(IDSeq) : \E c \in [1..n -> 1..MaxCount] : \E o \in BaseOfferings :
         aws = [id \in ReservationIDs |->
                  IF \E k \in 1..n : IDSeq[k] = id
                  THEN ReservedInstances(o, 0, Duration * Second - Second,
                                         c[CHOOSE k \in 1..n : IDSeq[k] = id],
                                         {}, "purchase", "none")
                  ELSE NoRI]
    /\ ril = [l \in ListingIDs |-> NoListing]
    /\ reservations = [id \in ReservationIDs |-> 0]
    /\ reservations_relations = {}
    /\ reservations_listings_terms = {}
    /\ sellEvents = [l \in ListingIDs |-> <<>>]
    /\ pc = "lock"
    /\ queue = <<>>
    /\ exit = "none"
    /\ cycles = 0
    /\ before = [reservations |-> reservations,
                 reservations_relations |-> reservations_relations,
                 reservations_listings_terms |-> reservations_listings_terms]
    /\ sortRevision = "After"

NextPoll ==
    \/ TimerFires
    \/ Lock
    \/ Unlock
    \/ GoReservations
    \/ PassStarts
    \/ PassResets
    \/ PassDescribes
    \/ PassAdds
    \/ PassReturns

SpecPoll == InitPoll /\ [][NextPoll]_vars

\* C30: non-overlapping poll passes.  No two reservations() passes run at
\* the same time and none runs while instances() rebuilds the cache, so when
\* a pass returns the gauge of every active reservation equals its instance
\* count.
C30_GaugeEqualsCount ==
    [][PassReturns
       => \A id \in Purchased : riInstanceCount'[id] = aws[id].InstanceCount
    ]_vars

====
